---- MODULE Spec2Model ----
(***************************************************************************)
(* Model of LibriaForge/plugin-loader: the dependency resolver             *)
(* (topologicalSort), the plugin registry (DefaultPluginContext) and the   *)
(* lifecycle coordinator (PluginManager).                                  *)
(***************************************************************************)
EXTENDS Integers, Sequences, FiniteSets, TLC

VARIABLES
    packages,     \* topologicalSort: the argument of the call
    sortPc,       \* topologicalSort: "call" before the call, "done" after it
    sortResult,   \* topologicalSort: what the call returned or threw
    sortTrace,    \* topologicalSort: the visits and marks of the call, in order
    plugins,      \* DefaultPluginContext.plugins: Map id -> {plugin, metadata}
    ctxCalls,     \* the register / unregister calls made on the context so far
    ctxPrev,      \* the context's map before the last of those calls
    manifests,    \* PluginManager.manifests: Map id -> PluginManifest
    task,         \* the manager operation in flight and where it is suspended
    disk,         \* the plugin directories: manifest and module of each
    watcher,      \* PluginManager.watcher: "null" or "open"
    subscriptions, \* the FSWatcher objects that are open, each with the
                   \* onChange its listener calls
    parked        \* a second operation in flight, suspended while task runs

vars == <<packages, sortPc, sortResult, sortTrace, plugins, ctxCalls, ctxPrev,
          manifests, task, disk, watcher, subscriptions, parked>>

sortVars == <<packages, sortPc, sortResult, sortTrace>>
ctxVars == <<ctxCalls, ctxPrev>>

(***************************************************************************)
(* Bounds and universes                                                    *)
(***************************************************************************)

\* Total number of dependency entries declared in one input of topologicalSort.
MaxEdges == 3

\* Number of register / unregister calls made directly on one context.
MaxCalls == 4

\* Number of plugin directories the patterns of one loadPlugins call match
\* (a directory matched by two patterns counts twice).
MaxBatch == 3
\* How many times the plugin.json of one plugin directory is edited.
MaxRevision == 1

\* Plugin ids.
Ids == {"a", "b", "c"}

\* JavaScript's undefined (an absent requestedBy / requiredVersion).
Undefined == "undefined"

(***************************************************************************)
(* Version Matcher: semver.satisfies(version, range)                       *)
(* A version is <<major, minor, patch>>; a range is [kind, lo, hi].        *)
(***************************************************************************)

VLt(v, w) ==
    \/ v[1] < w[1]
    \/ v[1] = w[1] /\ v[2] < w[2]
    \/ v[1] = w[1] /\ v[2] = w[2] /\ v[3] < w[3]

VLe(v, w) == v = w \/ VLt(v, w)

Exact(v) == [kind |-> "exact", lo |-> v, hi |-> v]
Caret(v) == [kind |-> "caret", lo |-> v, hi |-> v]
Tilde(v) == [kind |-> "tilde", lo |-> v, hi |-> v]
Between(lo, hi) == [kind |-> "range", lo |-> lo, hi |-> hi]
Star == [kind |-> "star", lo |-> <<0, 0, 0>>, hi |-> <<0, 0, 0>>]
NoRange == [kind |-> Undefined, lo |-> <<0, 0, 0>>, hi |-> <<0, 0, 0>>]

\* The exclusive upper end of ^lo.
CaretUpper(lo) ==
    IF lo[1] > 0 THEN <<lo[1] + 1, 0, 0>>
    ELSE IF lo[2] > 0 THEN <<0, lo[2] + 1, 0>>
    ELSE <<0, 0, lo[3] + 1>>

\* The exclusive upper end of ~lo.
TildeUpper(lo) == <<lo[1], lo[2] + 1, 0>>

Satisfies(version, range) ==
    CASE range.kind = "exact" -> version = range.lo
      [] range.kind = "caret" -> VLe(range.lo, version) /\ VLt(version, CaretUpper(range.lo))
      [] range.kind = "tilde" -> VLe(range.lo, version) /\ VLt(version, TildeUpper(range.lo))
      [] range.kind = "range" -> VLe(range.lo, version) /\ VLt(version, range.hi)
      [] OTHER -> TRUE

(***************************************************************************)
(* Manifests                                                               *)
(***************************************************************************)

\* __dir of the manifests of the tests: /fake/path/<id>
DirOf(id) == "/fake/path/" \o id

\* createManifest of the resolver's tests: a PluginManifest.
Manifest(id, version, dependencies) ==
    [id |-> id, name |-> id, pluginType |-> "test", version |-> version,
     description |-> Undefined, dependencies |-> dependencies, dir |-> DirOf(id)]

Dep(id, range) == [id |-> id, version |-> range]

(***************************************************************************)
(* Errors of types.ts                                                      *)
(***************************************************************************)

NoError == [name |-> "none"]

CircularDependencyError(cycle) ==
    [name |-> "CircularDependencyError", cycle |-> cycle]

DependencyNotFoundError(dependencyId, requestedBy) ==
    [name |-> "DependencyNotFoundError", dependencyId |-> dependencyId,
     requestedBy |-> requestedBy]

VersionMismatchError(packageId, actualVersion, requiredVersion, requestedBy) ==
    [name |-> "VersionMismatchError", packageId |-> packageId,
     actualVersion |-> actualVersion, requiredVersion |-> requiredVersion,
     requestedBy |-> requestedBy]

(***************************************************************************)
(* topologicalSort                                                         *)
(***************************************************************************)

PackageIds(pkgs) == {pkgs[i].id : i \in 1..Len(pkgs)}

\* new Map(packages.map(pkg => [pkg.id, pkg])): a later entry replaces an
\* earlier one with the same id.
\* Mutant: the first descriptor of an id is kept instead of the last.
PackageMapFirst(pkgs) ==
    [id \in PackageIds(pkgs) |->
        pkgs[CHOOSE i \in 1..Len(pkgs) :
                /\ pkgs[i].id = id
                /\ \A j \in 1..(i - 1) : pkgs[j].id # id]]

PackageMap(pkgs) ==
    [id \in PackageIds(pkgs) |->
        pkgs[CHOOSE i \in 1..Len(pkgs) :
                /\ pkgs[i].id = id
                /\ \A j \in (i + 1)..Len(pkgs) : pkgs[j].id # id]]

\* Mutant: the root of the traversal instead of the immediate requester.
FirstOf(path) == IF Len(path) = 0 THEN Undefined ELSE path[1]

\* path[path.length - 1]
LastOf(path) == IF Len(path) = 0 THEN Undefined ELSE path[Len(path)]

\* Mutant: the index is one too far.
IndexOfNext(path, id) ==
    IF \E i \in 1..Len(path) : path[i] = id
    THEN 1 + CHOOSE i \in 1..Len(path) :
                path[i] = id /\ \A j \in 1..(i - 1) : path[j] # id
    ELSE 0

\* path.indexOf(id), 1-based; 0 when absent
IndexOf(path, id) ==
    IF \E i \in 1..Len(path) : path[i] = id
    THEN CHOOSE i \in 1..Len(path) :
            path[i] = id /\ \A j \in 1..(i - 1) : path[j] # id
    ELSE 0

\* Mutant: the whole path is reported, not sliced at the first occurrence.
CyclePathUnsliced(path, id) == Append(path, id)

\* [...path, id].slice(path.indexOf(id)); slice(-1) keeps the last element
CyclePath(path, id) ==
    LET full == Append(path, id)
        k == IndexOf(path, id)
    IN  IF k = 0 THEN <<id>> ELSE SubSeq(full, k, Len(full))

\* The traversal's state: sorted, visiting, visited and the exception in flight.
\* trace is what an observer of the traversal sees: each call of visit and
\* each change of the marks, with the marks at that point.
SortState0 ==
    [sorted |-> <<>>, visiting |-> {}, visited |-> {}, error |-> NoError,
     trace |-> <<>>]

Traced(st, kind, id, requiredVersion, path) ==
    [st EXCEPT !.trace = Append(@, [kind |-> kind, id |-> id,
                                    version |-> requiredVersion, path |-> path,
                                    visiting |-> st.visiting,
                                    visited |-> st.visited])]

Throw(st, e) == [st EXCEPT !.error = e]

\* Mutant: a package that is already done is not validated again.
AlreadyVisitedUnchecked(packageMap, st, id, requiredVersion, path) == st

\* if (visited.has(id)) { ... }: the range of a later requester is still
\* validated against the version of a package that is already done.
AlreadyVisited(packageMap, st, id, requiredVersion, path) ==
    IF /\ requiredVersion # NoRange
       /\ id \in DOMAIN packageMap
       /\ ~Satisfies(packageMap[id].version, requiredVersion)
    THEN Throw(st, VersionMismatchError(id, packageMap[id].version,
                                        requiredVersion, LastOf(path)))
    ELSE st

\* Mutant: the range is not validated on the first visit of a package.
VersionNeverRejected(pkg, requiredVersion) == FALSE

\* requiredVersion && !semver.satisfies(pkg.version, requiredVersion)
VersionRejected(pkg, requiredVersion) ==
    requiredVersion # NoRange /\ ~Satisfies(pkg.version, requiredVersion)

\* visiting.add(id)
MarkVisiting(st, id) ==
    Traced([st EXCEPT !.visiting = @ \cup {id}], "visiting", id, NoRange, <<>>)

\* Mutant: sorted.unshift(pkg) instead of sorted.push(pkg).
MarkVisitedUnshift(st, id, pkg) ==
    Traced([st EXCEPT !.visiting = @ \ {id},
                      !.visited = @ \cup {id},
                      !.sorted = <<pkg>> \o @], "done", id, NoRange, <<>>)

\* Mutant: the id is not taken out of visiting.
MarkVisitedKeepVisiting(st, id, pkg) ==
    Traced([st EXCEPT !.visited = @ \cup {id},
                      !.sorted = Append(@, pkg)], "done", id, NoRange, <<>>)

\* visiting.delete(id); visited.add(id); sorted.push(pkg)
MarkVisited(st, id, pkg) ==
    Traced([st EXCEPT !.visiting = @ \ {id},
                      !.visited = @ \cup {id},
                      !.sorted = Append(@, pkg)], "done", id, NoRange, <<>>)

\* Mutant: the version requirement is checked before the in-progress mark.
VisitCheckVersionFirst(packageMap, st, id, requiredVersion, path) ==
    IF id \in DOMAIN packageMap /\ VersionRejected(packageMap[id], requiredVersion)
    THEN VersionMismatchError(id, packageMap[id].version, requiredVersion,
                              LastOf(path))
    ELSE IF id \in st.visiting
    THEN CircularDependencyError(CyclePath(path, id))
    ELSE IF id \notin DOMAIN packageMap
    THEN DependencyNotFoundError(id, LastOf(path))
    ELSE NoError

\* The checks of visit on an id that is not done: in progress, not found,
\* version requirement; the exception to throw, or NoError.
VisitCheck(packageMap, st, id, requiredVersion, path) ==
    IF id \in st.visiting
    THEN CircularDependencyError(CyclePath(path, id))
    ELSE IF id \notin DOMAIN packageMap
    THEN DependencyNotFoundError(id, LastOf(path))
    ELSE IF VersionRejected(packageMap[id], requiredVersion)
    THEN VersionMismatchError(id, packageMap[id].version, requiredVersion,
                              LastOf(path))
    ELSE NoError

RECURSIVE Visit(_, _, _, _, _)
RECURSIVE VisitDependencies(_, _, _, _, _)

\* visit(id, requiredVersion, path)
Visit(packageMap, st0, id, requiredVersion, path) ==
    IF st0.error # NoError THEN st0
    ELSE LET st == Traced(st0, "visit", id, requiredVersion, path)
         IN  IF id \in st.visited
             THEN AlreadyVisited(packageMap, st, id, requiredVersion, path)
             ELSE IF VisitCheck(packageMap, st, id, requiredVersion, path) # NoError
             THEN Throw(st, VisitCheck(packageMap, st, id, requiredVersion, path))
             ELSE LET pkg == packageMap[id]
                      st2 == VisitDependencies(packageMap, MarkVisiting(st, id),
                                               pkg.dependencies, 1, Append(path, id))
                  IN  IF st2.error # NoError THEN st2
                      ELSE MarkVisited(st2, id, pkg)

\* for (const dep of pkg.dependencies) visit(dep.id, dep.version, [...path, id])
VisitDependencies(packageMap, st, deps, k, path) ==
    IF k > Len(deps) \/ st.error # NoError THEN st
    ELSE VisitDependencies(packageMap,
                           Visit(packageMap, st, deps[k].id, deps[k].version, path),
                           deps, k + 1, path)

RECURSIVE VisitAllBackwards(_, _, _, _)
\* Mutant: the roots are visited from the last package to the first.
VisitAllBackwards(packageMap, st, pkgs, k) ==
    IF k > Len(pkgs) \/ st.error # NoError THEN st
    ELSE VisitAllBackwards(packageMap,
            Visit(packageMap, st, pkgs[Len(pkgs) + 1 - k].id, NoRange, <<>>),
            pkgs, k + 1)

RECURSIVE VisitAll(_, _, _, _)
\* for (const pkg of packages) visit(pkg.id)
VisitAll(packageMap, st, pkgs, k) ==
    IF k > Len(pkgs) \/ st.error # NoError THEN st
    ELSE VisitAll(packageMap, Visit(packageMap, st, pkgs[k].id, NoRange, <<>>),
                  pkgs, k + 1)

\* The traversal of one call.
SortRun(pkgs) == VisitAll(PackageMap(pkgs), SortState0, pkgs, 1)

\* The visits and marks of one call, in order.
VisitTrace(pkgs) == SortRun(pkgs).trace

\* What a call returns: the sorted list, or the exception it throws.
TopologicalSort(pkgs) ==
    LET st == SortRun(pkgs)
    IN  IF st.error = NoError
        THEN [threw |-> FALSE, value |-> st.sorted, error |-> NoError]
        ELSE [threw |-> TRUE, value |-> <<>>, error |-> st.error]

(***************************************************************************)
(* JavaScript Map: a sequence of [key, value] in insertion order           *)
(***************************************************************************)

MapHas(m, k) == \E i \in 1..Len(m) : m[i].key = k

MapIndex(m, k) == CHOOSE i \in 1..Len(m) : m[i].key = k

\* m.get(k), for a key that is present
MapGet(m, k) == m[MapIndex(m, k)].value

\* m.set(k, v): a present key keeps its position
MapSet(m, k, v) ==
    IF MapHas(m, k)
    THEN [m EXCEPT ![MapIndex(m, k)] = [key |-> k, value |-> v]]
    ELSE Append(m, [key |-> k, value |-> v])

\* m.delete(k)
MapDelete(m, k) == SelectSeq(m, LAMBDA e : e.key # k)

\* [...m.keys()]
MapKeys(m) == [i \in 1..Len(m) |-> m[i].key]

\* [...m.values()]
MapValues(m) == [i \in 1..Len(m) |-> m[i].value]

(***************************************************************************)
(* DefaultPluginContext                                                    *)
(***************************************************************************)

\* A LibriaPlugin: its api and whether it declares onLoad / onUnload.
LibriaPlugin(api, onLoad, onUnload) ==
    [api |-> api, onLoad |-> onLoad, onUnload |-> onUnload]

\* undefined where a LibriaPlugin / a PluginMetadata is expected
NoPlugin == LibriaPlugin(Undefined, FALSE, FALSE)
NoMetadata ==
    [id |-> Undefined, name |-> Undefined, pluginType |-> Undefined,
     version |-> <<0, 0, 0>>, description |-> Undefined, dependencies |-> <<>>,
     dir |-> Undefined]

DuplicatePluginError(id) == [name |-> "DuplicatePluginError", id |-> id]

PluginNotFoundError(id) == [name |-> "PluginNotFoundError", id |-> id]

RegisteredPlugin(plugin, metadata) == [plugin |-> plugin, metadata |-> metadata]

\* Mutant: register without the duplicate check.
RegisterOverwrite(ps, id, plugin, metadata) ==
    [plugins |-> MapSet(ps, id, RegisteredPlugin(plugin, metadata)),
     threw |-> FALSE, error |-> NoError]

\* register(id, plugin, metadata): the map afterwards and what was thrown
Register(ps, id, plugin, metadata) ==
    IF MapHas(ps, id)
    THEN [plugins |-> ps, threw |-> TRUE, error |-> DuplicatePluginError(id)]
    ELSE [plugins |-> MapSet(ps, id, RegisteredPlugin(plugin, metadata)),
          threw |-> FALSE, error |-> NoError]

\* Mutant: unregister empties the map.
UnregisterClear(ps, id) ==
    IF MapHas(ps, id)
    THEN [plugins |-> <<>>, value |-> MapGet(ps, id).plugin]
    ELSE [plugins |-> ps, value |-> NoPlugin]

\* Mutant: unregister returns the plugin but does not delete the entry.
UnregisterKeep(ps, id) ==
    IF MapHas(ps, id)
    THEN [plugins |-> ps, value |-> MapGet(ps, id).plugin]
    ELSE [plugins |-> ps, value |-> NoPlugin]

\* unregister(id): the map afterwards and the value returned
Unregister(ps, id) ==
    IF MapHas(ps, id)
    THEN [plugins |-> MapDelete(ps, id), value |-> MapGet(ps, id).plugin]
    ELSE [plugins |-> ps, value |-> NoPlugin]

\* Mutant: an absent id yields undefined instead of an exception.
GetPluginLenient(ps, id) ==
    IF ~MapHas(ps, id)
    THEN [threw |-> FALSE, value |-> Undefined, error |-> NoError]
    ELSE [threw |-> FALSE, value |-> MapGet(ps, id).plugin.api, error |-> NoError]

\* getPlugin(id): the api, or PluginNotFoundError
GetPlugin(ps, id) ==
    IF ~MapHas(ps, id)
    THEN [threw |-> TRUE, value |-> Undefined, error |-> PluginNotFoundError(id)]
    ELSE [threw |-> FALSE, value |-> MapGet(ps, id).plugin.api, error |-> NoError]

HasPlugin(ps, id) == MapHas(ps, id)

GetPluginInstance(ps, id) ==
    IF MapHas(ps, id) THEN MapGet(ps, id).plugin ELSE NoPlugin

GetPluginMetadata(ps, id) ==
    IF MapHas(ps, id) THEN MapGet(ps, id).metadata ELSE NoMetadata

GetPluginIds(ps) == MapKeys(ps)

\* Mutant: the type is not compared.
GetPluginsByTypeUnfiltered(ps, pluginType) ==
    [i \in 1..Len(ps) |-> ps[i].value.metadata]

GetPluginsByType(ps, pluginType) ==
    LET matching == SelectSeq(MapValues(ps),
                        LAMBDA r : r.metadata.pluginType = pluginType)
    IN  [i \in 1..Len(matching) |-> matching[i].metadata]

GetAllMetadata(ps) == [i \in 1..Len(ps) |-> MapValues(ps)[i].metadata]

(***************************************************************************)
(* The plugin directories (manifest discovery and module loader)           *)
(***************************************************************************)

\* One plugin directory: its plugin.json and whether the plugin its module
\* creates declares onLoad / onUnload.
PluginDir(manifest, onLoad, onUnload) ==
    [manifest |-> manifest, onLoad |-> onLoad, onUnload |-> onUnload]

\* dep-chain: a -> b -> c, every plugin with both hooks.
DepChain ==
    [id \in Ids |->
        CASE id = "a" -> PluginDir(Manifest("a", <<1, 0, 0>>,
                                <<Dep("b", Caret(<<1, 0, 0>>))>>), TRUE, TRUE)
          [] id = "b" -> PluginDir(Manifest("b", <<1, 5, 0>>,
                                <<Dep("c", Caret(<<2, 0, 0>>))>>), TRUE, TRUE)
          [] OTHER -> PluginDir(Manifest("c", <<2, 0, 0>>, <<>>), TRUE, TRUE)]

\* a -> b, a -> c, b -> c, with different hooks declared.
Diamond ==
    [id \in Ids |->
        CASE id = "a" -> PluginDir(Manifest("a", <<1, 0, 0>>,
                                <<Dep("b", Caret(<<1, 0, 0>>)),
                                  Dep("c", Caret(<<2, 0, 0>>))>>), FALSE, FALSE)
          [] id = "b" -> PluginDir(Manifest("b", <<1, 5, 0>>,
                                <<Dep("c", Star)>>), TRUE, FALSE)
          [] OTHER -> PluginDir(Manifest("c", <<2, 0, 0>>, <<>>), FALSE, TRUE)]

\* circular-deps: a -> b -> a, and an independent c.
CircularDeps ==
    [id \in Ids |->
        CASE id = "a" -> PluginDir(Manifest("a", <<1, 0, 0>>,
                                <<Dep("b", Caret(<<1, 0, 0>>))>>), TRUE, TRUE)
          [] id = "b" -> PluginDir(Manifest("b", <<1, 0, 0>>,
                                <<Dep("a", Caret(<<1, 0, 0>>))>>), TRUE, FALSE)
          [] OTHER -> PluginDir(Manifest("c", <<1, 0, 0>>, <<>>), FALSE, FALSE)]

\* version-mismatch: a requires b ^2.0.0 and b is 1.5.0; c requires b ^1.0.0.
VersionMismatch ==
    [id \in Ids |->
        CASE id = "a" -> PluginDir(Manifest("a", <<1, 0, 0>>,
                                <<Dep("b", Caret(<<2, 0, 0>>))>>), FALSE, FALSE)
          [] id = "b" -> PluginDir(Manifest("b", <<1, 5, 0>>, <<>>), TRUE, TRUE)
          [] OTHER -> PluginDir(Manifest("c", <<1, 0, 0>>,
                                <<Dep("b", Caret(<<1, 0, 0>>))>>), TRUE, FALSE)]

Fixtures == {DepChain, Diamond, CircularDeps, VersionMismatch}

\* The directories (named by the id of the plugin they hold) that the
\* patterns of one loadPlugins call match, in discovery order.
Batches == UNION {[1..n -> Ids] : n \in 0..MaxBatch}

\* findPlugins over the patterns: the manifests read from the directories
FindPlugins(d, dirs) == [i \in 1..Len(dirs) |-> d[dirs[i]].manifest]

PluginLoadError(id) == [name |-> "PluginLoadError", id |-> id]
PluginInvalidExportError(id) == [name |-> "PluginInvalidExportError", id |-> id]
\* What a plugin's own code throws from create / from a hook.
FactoryError(id) == [name |-> "FactoryError", id |-> id]
HookError(id) == [name |-> "HookError", id |-> id]

\* loadPlugin(manifest): how the module loader can end
LoaderOutcomes == {"factory", "PluginLoadError", "PluginInvalidExportError"}

\* The directory of the disk at a path (manifest.__dir).
DirectoryAt(d, dir) == CHOOSE k \in DOMAIN d : d[k].manifest.dir = dir

\* factory.create(ctx) of the module in the manifest's directory
Create(d, manifest) ==
    LET module == d[DirectoryAt(d, manifest.dir)]
    IN  LibriaPlugin(manifest.id, module.onLoad, module.onUnload)

(***************************************************************************)
(* PluginManager                                                           *)
(***************************************************************************)

\* Mutant: the directory is left out of the metadata.
manifestToMetadataWithoutDir(manifest) ==
    [id |-> manifest.id, name |-> manifest.name, pluginType |-> manifest.pluginType,
     version |-> manifest.version, description |-> manifest.description,
     dependencies |-> manifest.dependencies, dir |-> Undefined]

manifestToMetadata(manifest) ==
    [id |-> manifest.id, name |-> manifest.name, pluginType |-> manifest.pluginType,
     version |-> manifest.version, description |-> manifest.description,
     dependencies |-> manifest.dependencies, dir |-> manifest.dir]

\* What a spy on the loader, the factories, the registry and the hooks sees.
Event(ev, id) == [ev |-> ev, id |-> id]

\* The step in progress for plugin id throws (or its promise rejects).
Thrown(t, id) == [t EXCEPT !.events = Append(@, Event("throw", id))]

Pending == [state |-> "pending", error |-> NoError]
Resolved == [state |-> "resolved", error |-> NoError]
Rejected(e) == [state |-> "rejected", error |-> e]

\* topologicalSort is not being exercised on its own.
SortIdle ==
    /\ packages = <<>>
    /\ sortPc = "idle"
    /\ sortResult = [threw |-> FALSE, value |-> <<>>, error |-> NoError]
    /\ sortTrace = <<>>

\* The manifest variable of an operation that has not read one.
NoManifest == Manifest(Undefined, <<0, 0, 0>>, <<>>)

\* No operation has been called yet.  clean records that no operation called
\* so far was rejected.  handler, path, calls and rejected describe the change
\* handler of the watcher when the operation is run by it: where the handler
\* is, the path of the event, the calls of onChange it made and whether its
\* promise was rejected.  onChange is the callback of the operation: the
\* argument of watch, or the callback the handler closed over.
IdleTask ==
    [op |-> "none", pc |-> "idle", dirs |-> <<>>, batch |-> <<>>,
     sorted |-> <<>>, k |-> 0, target |-> Undefined, queue |-> <<>>,
     old |-> NoManifest, clean |-> TRUE,
     plugin |-> NoPlugin, events |-> <<>>,
     handler |-> "none", path |-> Undefined, onChange |-> Undefined,
     calls |-> <<>>, rejected |-> FALSE,
     before |-> [plugins |-> <<>>, manifests |-> <<>>, watcher |-> "null"],
     result |-> Pending]

ManagerIdle ==
    /\ manifests = <<>>
    /\ task = IdleTask
    /\ parked = IdleTask
    /\ disk = DepChain
    /\ watcher = "null"
    /\ subscriptions = <<>>

\* The operations that run loadSinglePlugin.
LoadingOps == {"loadPlugins", "reloadPlugin"}

\* Mutant: the manifests are loaded in discovery order.
ResolveBatchUnsorted(batch) ==
    LET res == TopologicalSort(batch)
    IN  IF res.threw THEN res ELSE [res EXCEPT !.value = batch]

\* Mutant: a resolution error is swallowed and the batch loaded as discovered.
ResolveBatchIgnoringErrors(batch) ==
    LET res == TopologicalSort(batch)
    IN  IF res.threw THEN [threw |-> FALSE, value |-> batch, error |-> NoError]
        ELSE res

\* Mutant: dependencies are also resolved against the manifests already held.
ResolveBatchAmongLoaded(batch) ==
    LET res == TopologicalSort(MapValues(manifests) \o batch)
        held == {MapKeys(manifests)[i] : i \in DOMAIN manifests}
    IN  IF res.threw THEN res
        ELSE [res EXCEPT !.value = SelectSeq(@, LAMBDA mf : mf.id \notin held)]

\* const sortedManifests = topologicalSort(allManifests)
ResolveBatch(batch) == TopologicalSort(batch)

\* The loop of loadPlugins reaches the next manifest, whose loadSinglePlugin
\* calls loadPlugin and is suspended there; after the last one loadPlugins
\* resolves.
Advance(t) ==
    IF t.k < Len(t.sorted)
    THEN [t EXCEPT !.k = t.k + 1,
                   !.pc = "import",
                   !.plugin = NoPlugin,
                   !.events = Append(@, Event("loadPlugin", t.sorted[t.k + 1].id))]
    ELSE [t EXCEPT !.pc = "done", !.plugin = NoPlugin, !.result = Resolved]

\* Mutant: the failure of one plugin is caught and the loop goes on.
FailStepContinue(t, e) == Advance(t)

\* An exception in loadSinglePlugin is not caught: loadPlugins rejects.
FailStep(t, e) == [t EXCEPT !.pc = "done", !.result = Rejected(e)]

\* Mutant: onLoad is called but its promise is not awaited.
CallOnLoadUnawaited(t, plugin, id) ==
    IF plugin.onLoad
    THEN Advance([t EXCEPT !.events = Append(@, Event("onLoad", id))])
    ELSE Advance(t)

\* if (plugin.onLoad) await Promise.resolve(plugin.onLoad())
CallOnLoad(t, plugin, id) ==
    IF plugin.onLoad
    THEN [t EXCEPT !.pc = "onLoad", !.events = Append(@, Event("onLoad", id))]
    ELSE Advance(t)

\* An operation, or the change handler that runs it, has not finished.
Unfinished(t) == t.pc \notin {"idle", "done"} \/ t.handler = "running"

\* The caller serializes its calls: no operation is in flight and no change
\* handler is running.  A run in which two operations overlapped is followed
\* until both have finished, not beyond.
Quiet == ~Unfinished(task) /\ parked = IdleTask

\* loadPlugins(patterns) is called and suspended at await findPlugins.
LoadPluginsCall(dirs) ==
    /\ Quiet
    /\ task' = [IdleTask EXCEPT !.op = "loadPlugins",
                                !.pc = "discover",
                                !.dirs = dirs,
                                !.clean = task.clean /\ task.result.state # "rejected",
                                !.before = [plugins |-> plugins, manifests |-> manifests,
                                            watcher |-> watcher]]
    /\ UNCHANGED <<sortVars, ctxVars, plugins, manifests, disk, watcher, subscriptions, parked>>

\* findPlugins has resolved for every pattern; the manifests are sorted and
\* loadSinglePlugin of the first one calls loadPlugin.
LoadPluginsSort ==
    /\ task.op = "loadPlugins" /\ task.pc = "discover"
    /\ LET allManifests == FindPlugins(disk, task.dirs)
           res == ResolveBatch(allManifests)
           t == [task EXCEPT !.batch = allManifests]
       IN  task' = IF res.threw THEN FailStep(t, res.error)
                   ELSE Advance([t EXCEPT !.sorted = res.value, !.k = 0])
    /\ UNCHANGED <<sortVars, ctxVars, plugins, manifests, disk, watcher, subscriptions, parked>>

\* await loadPlugin(manifest) ends; on a factory, factory.create(this.context)
\* is invoked and awaited.
LoadPluginDone(outcome) ==
    /\ task.op \in LoadingOps /\ task.pc = "import"
    /\ LET id == task.sorted[task.k].id
       IN  task' =
             CASE outcome = "PluginLoadError" ->
                    FailStep(Thrown(task, id), PluginLoadError(id))
               [] outcome = "PluginInvalidExportError" ->
                    FailStep(Thrown(task, id), PluginInvalidExportError(id))
               [] OTHER -> [task EXCEPT !.pc = "create",
                                        !.events = Append(@, Event("create", id))]
    /\ UNCHANGED <<sortVars, ctxVars, plugins, manifests, disk, watcher, subscriptions, parked>>

\* create has thrown, or the promise it returned is rejected.
CreateFailed ==
    /\ task.op \in LoadingOps /\ task.pc = "create"
    /\ LET id == task.sorted[task.k].id
       IN  task' = FailStep(Thrown(task, id), FactoryError(id))
    /\ UNCHANGED <<sortVars, ctxVars, plugins, manifests, disk, watcher, subscriptions, parked>>

\* await create ends with the plugin: register, manifests.set, and onLoad is
\* called if the plugin declares it.
CreateDone ==
    /\ task.op \in LoadingOps /\ task.pc = "create"
    /\ LET manifest == task.sorted[task.k]
           plugin == Create(disk, manifest)
           res == Register(plugins, manifest.id, plugin, manifestToMetadata(manifest))
           t == [task EXCEPT !.plugin = plugin,
                             !.events = Append(@, Event("register", manifest.id))]
       IN  IF res.threw
           THEN /\ task' = FailStep(Thrown(task, manifest.id), res.error)
                /\ UNCHANGED <<plugins, manifests>>
           ELSE /\ plugins' = res.plugins
                /\ manifests' = MapSet(manifests, manifest.id, manifest)
                /\ task' = CallOnLoad(t, plugin, manifest.id)
    /\ UNCHANGED <<sortVars, ctxVars, disk, watcher, subscriptions, parked>>

\* await plugin.onLoad() ends normally.
OnLoadDone ==
    /\ task.op \in LoadingOps /\ task.pc = "onLoad"
    /\ task' = Advance([task EXCEPT !.events =
                            Append(@, Event("onLoadDone", task.sorted[task.k].id))])
    /\ UNCHANGED <<sortVars, ctxVars, plugins, manifests, disk, watcher, subscriptions, parked>>

\* Mutant: a failing onLoad takes the entry out again before the error leaves.
OnLoadFailedRollback ==
    /\ task.op \in LoadingOps /\ task.pc = "onLoad"
    /\ LET id == task.sorted[task.k].id
       IN  /\ task' = FailStep(Thrown(task, id), HookError(id))
           /\ plugins' = Unregister(plugins, id).plugins
           /\ manifests' = MapDelete(manifests, id)
    /\ UNCHANGED <<sortVars, ctxVars, disk, watcher, subscriptions, parked>>

\* plugin.onLoad() throws or rejects.
OnLoadFailed ==
    /\ task.op \in LoadingOps /\ task.pc = "onLoad"
    /\ LET id == task.sorted[task.k].id
       IN  task' = FailStep(Thrown(task, id), HookError(id))
    /\ UNCHANGED <<sortVars, ctxVars, plugins, manifests, disk, watcher, subscriptions, parked>>

\* Mutant: the entry is removed before onUnload is called.
UnloadSingleStartRemoveFirst(m, id) ==
    LET r == [m EXCEPT !.plugins = Unregister(@, id).plugins,
                       !.manifests = MapDelete(@, id),
                       !.task.events = Append(@, Event("unregister", id))]
    IN  IF GetPluginInstance(m.plugins, id).onUnload
        THEN [r EXCEPT !.task.pc = "onUnload",
                       !.task.events = Append(@, Event("onUnload", id))]
        ELSE [r EXCEPT !.task.pc = "unloaded"]

\* Mutant: the manifest of the removed plugin is kept.
RemovePluginKeepManifest(m, id) ==
    [m EXCEPT !.plugins = Unregister(@, id).plugins,
              !.task.events = Append(@, Event("unregister", id))]

\* this.context.unregister(id); this.manifests.delete(id)
RemovePlugin(m, id) ==
    [m EXCEPT !.plugins = Unregister(@, id).plugins,
              !.manifests = MapDelete(@, id),
              !.task.events = Append(@, Event("unregister", id))]

\* unloadSinglePlugin(id) up to its first suspension: at await onUnload when
\* the instance declares it, otherwise at the caller's await with the entry
\* removed.  m is [plugins, manifests, task].
UnloadSingleStart(m, id) ==
    IF GetPluginInstance(m.plugins, id).onUnload
    THEN [m EXCEPT !.task.pc = "onUnload",
                   !.task.events = Append(@, Event("onUnload", id))]
    ELSE [RemovePlugin(m, id) EXCEPT !.task.pc = "unloaded"]

\* Mutant: the ids are unloaded in insertion order.
ShutdownIdsForward(ms) == MapKeys(ms)

\* [...this.manifests.keys()].reverse()
ShutdownIds(ms) ==
    [i \in 1..Len(ms) |-> MapKeys(ms)[Len(ms) + 1 - i]]

\* Mutant: the loop of shutdown stops after the first id.
ShutdownNextOnce(m, ids) ==
    IF ids = <<>> \/ m.task.target # Undefined
    THEN [m EXCEPT !.task.pc = "done", !.task.result = Resolved]
    ELSE UnloadSingleStart([m EXCEPT !.task.target = Head(ids),
                                     !.task.queue = Tail(ids)], Head(ids))

\* for (const id of ids) await this.unloadSinglePlugin(id): the next id, or
\* the end of shutdown.
ShutdownNext(m, ids) ==
    IF ids = <<>>
    THEN [m EXCEPT !.task.pc = "done", !.task.result = Resolved]
    ELSE UnloadSingleStart([m EXCEPT !.task.target = Head(ids),
                                     !.task.queue = Tail(ids)], Head(ids))

\* Mutant: the watcher is closed but the field keeps it.
StopWatchingKeep(w) == w

\* stopWatching: the watcher field once close() has resolved
StopWatching(w) == "null"

\* watch, after any previous watcher was stopped: a watcher is created when
\* some plugin is loaded.
WatchSetup(w, ms) == IF Len(ms) = 0 THEN w ELSE "open"

\* await this.watcher.close(): the FSWatcher held by the manager, the last
\* one created, is closed.
Close(subs) == SubSeq(subs, 1, Len(subs) - 1)

\* The callbacks given to watch: none (the parameter is optional), one that
\* returns, one that throws when it is called with 'reload', one that throws
\* on every call.
Callbacks == {Undefined, "returns", "throwsOnReload", "throws"}

\* watch(dirsToWatch, ...) of chokidar: a new FSWatcher is opened, none when
\* the manager holds no manifest.
\* Its 'change' listener closes over the onChange given to watch.
Subscribe(subs, ms, onChange) ==
    IF Len(ms) = 0 THEN subs ELSE Append(subs, [onChange |-> onChange])

ManifestNotFoundError(id, dir) ==
    [name |-> "ManifestNotFoundError", id |-> id, dir |-> dir]

\* A fresh operation record.
Call(op, id) ==
    [IdleTask EXCEPT !.op = op, !.target = id,
                     !.clean = task.clean /\ task.result.state # "rejected",
                     !.before = [plugins |-> plugins, manifests |-> manifests,
                                 watcher |-> watcher]]

Machine(t) == [plugins |-> plugins, manifests |-> manifests, task |-> t]

Becomes(m) ==
    /\ plugins' = m.plugins
    /\ manifests' = m.manifests
    /\ task' = m.task

\* Mutant: reloadPlugin does not look the id up first.
ReloadStartUnchecked(m, id) ==
    UnloadSingleStart([m EXCEPT !.task.old = disk[id].manifest], id)

\* reloadPlugin(id) up to its first suspension: PluginNotFoundError when the
\* manager holds no manifest of id, otherwise (the module cache cleared)
\* unloadSinglePlugin is started.
ReloadStart(m, id) ==
    IF ~MapHas(m.manifests, id)
    THEN [m EXCEPT !.task = FailStep(@, PluginNotFoundError(id))]
    ELSE UnloadSingleStart([m EXCEPT !.task.old = MapGet(m.manifests, id)], id)

\* Mutant: a missing manifest is ignored and the old one is loaded again.
RediscoveredIgnoringMissing(t, found) ==
    Advance([t EXCEPT !.events = Append(@, Event(IF found THEN "found" ELSE "notFound",
                                                 t.target)),
                      !.sorted = <<t.old>>, !.k = 0])

\* Mutant: the manifest the manager already holds is loaded again.
RediscoveredStale(t, found) ==
    IF found
    THEN Advance([t EXCEPT !.events = Append(@, Event("found", t.target)),
                           !.sorted = <<t.old>>, !.k = 0])
    ELSE FailStep([t EXCEPT !.events = Append(@, Event("notFound", t.target))],
                  ManifestNotFoundError(t.target, t.old.dir))

\* reloadPlugin after await findPlugins(manifest.__dir): without a manifest
\* ManifestNotFoundError is thrown, otherwise loadSinglePlugin of the manifest
\* found calls loadPlugin.
Rediscovered(t, found) ==
    IF found
    THEN Advance([t EXCEPT !.events = Append(@, Event("found", t.target)),
                           !.sorted = FindPlugins(disk, <<DirectoryAt(disk, t.old.dir)>>),
                           !.k = 0])
    ELSE FailStep([t EXCEPT !.events = Append(@, Event("notFound", t.target))],
                  ManifestNotFoundError(t.target, t.old.dir))

\* unloadPlugin(id)
UnloadPluginCall(id) ==
    /\ Quiet
    /\ IF ~HasPlugin(plugins, id)
       THEN Becomes(Machine(FailStep(Call("unloadPlugin", id), PluginNotFoundError(id))))
       ELSE Becomes(UnloadSingleStart(Machine(Call("unloadPlugin", id)), id))
    /\ UNCHANGED <<sortVars, ctxVars, disk, watcher, subscriptions, parked>>

\* reloadPlugin(id), up to the first suspension of unloadSinglePlugin
ReloadPluginCall(id) ==
    /\ Quiet
    /\ Becomes(ReloadStart(Machine(Call("reloadPlugin", id)), id))
    /\ UNCHANGED <<sortVars, ctxVars, disk, watcher, subscriptions, parked>>

\* Where a caller of stopWatching() is suspended: inside it at await
\* this.watcher.close() when a watcher is active, otherwise at its own await
\* of the promise stopWatching returned.
AwaitStopWatching(w, closing, returned) ==
    IF w = "open" THEN closing ELSE returned

\* shutdown(), suspended at await this.stopWatching()
ShutdownCall ==
    /\ Quiet
    /\ task' = [Call("shutdown", Undefined)
                   EXCEPT !.pc = AwaitStopWatching(watcher, "stopWatching", "stopped")]
    /\ UNCHANGED <<sortVars, ctxVars, plugins, manifests, disk, watcher, subscriptions, parked>>

\* Inside the stopWatching awaited by shutdown, close() has resolved:
\* this.watcher = null; stopWatching returns and shutdown is still suspended
\* at its await.
ShutdownStopped ==
    /\ task.op = "shutdown" /\ task.pc = "stopWatching"
    /\ task' = [task EXCEPT !.pc = "stopped"]
    /\ watcher' = StopWatching(watcher)
    /\ subscriptions' = IF watcher = "open" THEN Close(subscriptions)
                        ELSE subscriptions
    /\ UNCHANGED <<sortVars, ctxVars, plugins, manifests, disk, parked>>

\* shutdown continues after await this.stopWatching(): it takes the ids and
\* starts unloading.
ShutdownResumed ==
    /\ task.op = "shutdown" /\ task.pc = "stopped"
    /\ Becomes(ShutdownNext(Machine(task), ShutdownIds(manifests)))
    /\ UNCHANGED <<sortVars, ctxVars, disk, watcher, subscriptions, parked>>

\* await plugin.onUnload() ends normally: the entry is removed.
OnUnloadDone ==
    /\ task.pc = "onUnload"
    /\ Becomes([RemovePlugin(
                    Machine([task EXCEPT !.events =
                                Append(@, Event("onUnloadDone", task.target))]),
                    task.target)
                EXCEPT !.task.pc = "unloaded"])
    /\ UNCHANGED <<sortVars, ctxVars, disk, watcher, subscriptions, parked>>

\* Mutant: the entry is removed although onUnload failed.
OnUnloadFailedRemoves ==
    /\ task.pc = "onUnload"
    /\ Becomes(RemovePlugin(Machine(FailStep(Thrown(task, task.target),
                                              HookError(task.target))),
                            task.target))
    /\ UNCHANGED <<sortVars, ctxVars, disk, watcher, subscriptions, parked>>

\* plugin.onUnload() throws or rejects: nothing catches it.
OnUnloadFailed ==
    /\ task.pc = "onUnload"
    /\ task' = FailStep(Thrown(task, task.target), HookError(task.target))
    /\ UNCHANGED <<sortVars, ctxVars, plugins, manifests, disk, watcher, subscriptions, parked>>

\* await this.unloadSinglePlugin(id) ends in the operation that called it.
UnloadReturned ==
    /\ task.pc = "unloaded"
    /\ CASE task.op = "unloadPlugin" ->
                Becomes(Machine([task EXCEPT !.pc = "done", !.result = Resolved]))
         [] task.op = "shutdown" ->
                Becomes(ShutdownNext(Machine(task), task.queue))
         [] OTHER ->
                Becomes(Machine([task EXCEPT !.pc = "rediscover",
                        !.events = Append(@, Event("findPlugins", task.target))]))
    /\ UNCHANGED <<sortVars, ctxVars, disk, watcher, subscriptions, parked>>

\* await findPlugins(manifest.__dir) ends in reloadPlugin, with or without a
\* manifest.
RediscoverDone(found) ==
    /\ task.op = "reloadPlugin" /\ task.pc = "rediscover"
    /\ task' = Rediscovered(task, found)
    /\ UNCHANGED <<sortVars, ctxVars, plugins, manifests, disk, watcher, subscriptions, parked>>

\* Mutant: watch does not stop the watcher that is active.
WatchCallWithoutStop(onChange) ==
    /\ Quiet
    /\ task' = [Call("watch", Undefined) EXCEPT !.pc = "done", !.result = Resolved,
                                                !.onChange = onChange]
    /\ watcher' = WatchSetup(watcher, manifests)
    /\ subscriptions' = Subscribe(subscriptions, manifests, onChange)
    /\ UNCHANGED <<sortVars, ctxVars, plugins, manifests, disk, parked>>

\* watch(patterns, onChange): with a watcher active it first awaits
\* stopWatching.  onChange is optional.
WatchCall(onChange) ==
    /\ Quiet
    /\ IF watcher = "open"
       THEN /\ task' = [Call("watch", Undefined) EXCEPT !.pc = "watchStop",
                                                         !.onChange = onChange]
            /\ UNCHANGED <<watcher, subscriptions, parked>>
       ELSE /\ task' = [Call("watch", Undefined) EXCEPT !.pc = "done",
                                                         !.result = Resolved,
                                                         !.onChange = onChange]
            /\ watcher' = WatchSetup(watcher, manifests)
            /\ subscriptions' = Subscribe(subscriptions, manifests, onChange)
    /\ UNCHANGED <<sortVars, ctxVars, plugins, manifests, disk, parked>>

\* Inside the stopWatching awaited by watch, close() has resolved:
\* this.watcher = null; stopWatching returns and watch is still suspended at
\* its await.
WatchStopped ==
    /\ task.op = "watch" /\ task.pc = "watchStop"
    /\ task' = [task EXCEPT !.pc = "watchStopped"]
    /\ watcher' = StopWatching(watcher)
    /\ subscriptions' = Close(subscriptions)
    /\ UNCHANGED <<sortVars, ctxVars, plugins, manifests, disk, parked>>

\* watch continues after await this.stopWatching(): a watcher is created
\* when some plugin is loaded.
WatchResumed ==
    /\ task.op = "watch" /\ task.pc = "watchStopped"
    /\ task' = [task EXCEPT !.pc = "done", !.result = Resolved]
    /\ watcher' = WatchSetup(watcher, manifests)
    /\ subscriptions' = Subscribe(subscriptions, manifests, task.onChange)
    /\ UNCHANGED <<sortVars, ctxVars, plugins, manifests, disk, parked>>

\* stopWatching(): with a watcher it awaits close()
StopWatchingCall ==
    /\ Quiet
    /\ task' = IF watcher = "open"
               THEN [Call("stopWatching", Undefined) EXCEPT !.pc = "closing"]
               ELSE [Call("stopWatching", Undefined) EXCEPT !.pc = "done",
                                                            !.result = Resolved]
    /\ UNCHANGED <<sortVars, ctxVars, plugins, manifests, disk, watcher, subscriptions, parked>>

\* close() has resolved: this.watcher = null
StopWatchingClosed ==
    /\ task.op = "stopWatching" /\ task.pc = "closing"
    /\ task' = [task EXCEPT !.pc = "done", !.result = Resolved]
    /\ watcher' = StopWatching(watcher)
    /\ subscriptions' = Close(subscriptions)
    /\ UNCHANGED <<sortVars, ctxVars, plugins, manifests, disk, parked>>

InitManager ==
    /\ SortIdle
    /\ plugins = <<>>
    /\ ctxCalls = <<>>
    /\ ctxPrev = <<>>
    /\ manifests = <<>>
    /\ task = IdleTask
    /\ parked = IdleTask
    /\ disk \in Fixtures
    /\ watcher = "null"
    /\ subscriptions = <<>>

NextManager ==
    \/ \E dirs \in Batches : LoadPluginsCall(dirs)
    \/ LoadPluginsSort
    \/ \E outcome \in LoaderOutcomes : LoadPluginDone(outcome)
    \/ CreateFailed
    \/ CreateDone
    \/ OnLoadDone
    \/ OnLoadFailed
    \/ \E id \in Ids : UnloadPluginCall(id)
    \/ \E id \in Ids : ReloadPluginCall(id)
    \/ ShutdownCall
    \/ ShutdownStopped
    \/ ShutdownResumed
    \/ OnUnloadDone
    \/ OnUnloadFailed
    \/ UnloadReturned
    \/ \E found \in BOOLEAN : RediscoverDone(found)
    \/ \E onChange \in {Undefined} : WatchCall(onChange)
    \/ WatchStopped
    \/ WatchResumed
    \/ StopWatchingCall
    \/ StopWatchingClosed

SpecManager == InitManager /\ [][NextManager]_vars

(***************************************************************************)
(* Hot reload: edited plugin directories and the watcher's change handler  *)
(***************************************************************************)

\* Plugin directories of which one path is a string prefix of another:
\* /plugins/foo (plugin a), /plugins/foobar (plugin b), /plugins/other (c,
\* which depends on b).
PrefixDirs ==
    [id \in Ids |->
        CASE id = "a" -> PluginDir([Manifest("a", <<1, 0, 0>>, <<>>)
                                      EXCEPT !.dir = "/plugins/foo"], TRUE, TRUE)
          [] id = "b" -> PluginDir([Manifest("b", <<1, 5, 0>>, <<>>)
                                      EXCEPT !.dir = "/plugins/foobar"], FALSE, TRUE)
          [] OTHER -> PluginDir([Manifest("c", <<2, 0, 0>>,
                                          <<Dep("b", Caret(<<1, 0, 0>>))>>)
                                      EXCEPT !.dir = "/plugins/other"], TRUE, FALSE)]

HotFixtures == {PrefixDirs}

\* The patterns of the loadPlugins calls made while hot reload is exercised.
HotBatches == {<<"a", "b">>, <<"b", "a">>, <<"b", "c">>}

\* The plugin whose plugin.json is edited.
Editable == {"a"}

\* The file of a plugin directory that changes.
ChangedFiles == {"/index.js"}

\* The paths chokidar reports: files of the plugin directories.
ChangePaths(d) == {d[id].manifest.dir \o f : id \in Ids, f \in ChangedFiles}

\* The plugin directory after an edit of its plugin.json: a new version.
\* The module file is left as it is.
Revised(p) ==
    [p EXCEPT !.manifest.version = <<@[1], @[2], @[3] + 1>>]

\* filePath.startsWith(dir)
StartsWith(filePath, dir) ==
    Len(dir) <= Len(filePath) /\ SubSeq(filePath, 1, Len(dir)) = dir

\* for (const [id, manifest] of this.manifests)
\*     if (filePath.startsWith(manifest.__dir)) { ...; break }
\* the id of the first manifest, in Map order, whose directory is a prefix
\* of the path; Undefined when there is none.
MatchingPlugin(ms, filePath) ==
    LET hits == {i \in 1..Len(ms) : StartsWith(filePath, ms[i].value.dir)}
    IN  IF hits = {} THEN Undefined
        ELSE ms[CHOOSE i \in hits : \A j \in hits : i <= j].key

\* onChange?.(id, event, error)
Callback(id, event, error) == [id |-> id, event |-> event, error |-> error]

\* err instanceof Error: the errors of the loader are Error objects, and so
\* is what the callback throws; what the code of plugin b throws from create
\* and from its hooks is a string, what the other plugins throw is an Error.
InstanceOfError(err) ==
    ~(err.name \in {"FactoryError", "HookError"} /\ err.id \in {"b"})

\* try { await this.reloadPlugin(id); onChange?.(id, 'reload') }
\* catch (err) { onChange?.(id, 'error',
\*                          err instanceof Error ? err : new Error(String(err))) }
\* onChange?.(...) calls nothing without a callback.  The try covers the call
\* of the callback: the Error it throws on 'reload' is caught and reported to
\* it as an 'error'.  What it throws in the catch block leaves the handler,
\* whose promise is rejected.
Settle(t, result) ==
    LET throws(event) ==
            \/ t.onChange = "throws"
            \/ t.onChange = "throwsOnReload" /\ event = "reload"
        invoke(calls, event, err) ==
            IF t.onChange = Undefined THEN calls
            ELSE Append(calls, Callback(t.target, event, err))
        caught(s, err) ==
            [s EXCEPT !.calls = invoke(@, "error",
                                       IF InstanceOfError(err) THEN err
                                       ELSE [name |-> "Error", message |-> err]),
                      !.rejected = throws("error")]
        called == [t EXCEPT !.handler = "reload",
                            !.calls = invoke(@, "reload", NoError)]
    IN  IF result.state = "resolved"
        THEN IF throws("reload")
             THEN caught(called, [name |-> "Error"])
             ELSE called
        ELSE caught([t EXCEPT !.handler = "error"], result.error)

\* The plugin.json of a plugin directory is edited on disk, between operations.
EditPlugin(id) ==
    /\ Quiet
    /\ id \in Editable
    /\ disk[id].manifest.version[3] < MaxRevision
    /\ disk' = [disk EXCEPT ![id] = Revised(@)]
    /\ UNCHANGED <<sortVars, ctxVars, plugins, manifests, task, watcher, subscriptions, parked>>

\* The paths of the events that reach the handler.
HotPaths == UNION {ChangePaths(d) : d \in HotFixtures}

\* The open watcher emits 'change' for a file of a plugin directory: the
\* handler looks for the plugin the path belongs to and, when it finds one,
\* calls reloadPlugin, which runs up to its first suspension; without one
\* the handler ends at once.  The handler calls the onChange the listener of
\* the manager's watcher closed over.
ChangeHandler(filePath) ==
    LET id == MatchingPlugin(manifests, filePath)
    IN  IF id = Undefined
        THEN /\ task' = [Call("change", Undefined)
                            EXCEPT !.pc = "done", !.result = Resolved,
                                   !.handler = "ignored", !.path = filePath]
             /\ UNCHANGED <<plugins, manifests>>
        ELSE Becomes(ReloadStart(
                 Machine([Call("reloadPlugin", id)
                             EXCEPT !.handler = "running", !.path = filePath,
                                    !.onChange = subscriptions[Len(subscriptions)].onChange]),
                 id))

ChangeEvent(filePath) ==
    /\ Quiet
    /\ watcher = "open"
    /\ filePath \in ChangePaths(disk)
    /\ ChangeHandler(filePath)
    /\ UNCHANGED <<sortVars, ctxVars, disk, watcher, subscriptions, parked>>

\* The reloadPlugin awaited by the handler has settled: the callback is
\* called and the handler ends.
HandlerDone ==
    /\ task.handler = "running"
    /\ task.pc = "done"
    /\ task' = Settle(task, task.result)
    /\ UNCHANGED <<sortVars, ctxVars, plugins, manifests, disk, watcher,
                   subscriptions, parked>>

InitHotReload ==
    /\ SortIdle
    /\ plugins = <<>>
    /\ ctxCalls = <<>>
    /\ ctxPrev = <<>>
    /\ manifests = <<>>
    /\ task = IdleTask
    /\ parked = IdleTask
    /\ disk \in HotFixtures
    /\ watcher = "null"
    /\ subscriptions = <<>>

NextHotReload ==
    \/ \E dirs \in HotBatches : LoadPluginsCall(dirs)
    \/ LoadPluginsSort
    \/ \E outcome \in LoaderOutcomes : LoadPluginDone(outcome)
    \/ CreateFailed
    \/ CreateDone
    \/ OnLoadDone
    \/ OnLoadFailed
    \/ \E id \in Ids : UnloadPluginCall(id)
    \/ \E id \in Ids : ReloadPluginCall(id)
    \/ ShutdownCall
    \/ ShutdownStopped
    \/ ShutdownResumed
    \/ OnUnloadDone
    \/ OnUnloadFailed
    \/ UnloadReturned
    \/ \E found \in BOOLEAN : RediscoverDone(found)
    \/ \E onChange \in Callbacks : WatchCall(onChange)
    \/ WatchStopped
    \/ WatchResumed
    \/ StopWatchingCall
    \/ StopWatchingClosed
    \/ \E id \in Ids : EditPlugin(id)
    \/ \E filePath \in HotPaths : ChangeEvent(filePath)
    \/ HandlerDone

SpecHotReload == InitHotReload /\ [][NextHotReload]_vars

(***************************************************************************)
(* Operations that overlap: a change handler suspended at an await while   *)
(* another handler, or shutdown, runs                                      *)
(***************************************************************************)

\* A handler is suspended at an await inside its reloadPlugin, and nothing
\* else is in flight.
HandlerSuspended ==
    /\ task.handler = "running"
    /\ task.pc # "done"
    /\ parked = IdleTask

\* The watcher emits 'change' while a handler is suspended: nothing makes the
\* second handler wait for the first, it runs up to its own first suspension.
OverlappingChange(filePath) ==
    /\ HandlerSuspended
    /\ watcher = "open"
    /\ filePath \in ChangePaths(disk)
    /\ ChangeHandler(filePath)
    /\ parked' = task
    /\ UNCHANGED <<sortVars, ctxVars, disk, watcher, subscriptions>>

\* shutdown() is called while a handler is suspended; it is suspended at
\* await this.stopWatching().
OverlappingShutdown ==
    /\ HandlerSuspended
    /\ task' = [Call("shutdown", Undefined)
                   EXCEPT !.pc = AwaitStopWatching(watcher, "stopWatching", "stopped")]
    /\ parked' = task
    /\ UNCHANGED <<sortVars, ctxVars, plugins, manifests, disk, watcher, subscriptions>>

\* The await of the other operation in flight ends first: it is the one that
\* runs next, the current one stays where it is suspended (or has finished).
Resume ==
    /\ Unfinished(parked)
    /\ task' = parked
    /\ parked' = task
    /\ UNCHANGED <<sortVars, ctxVars, plugins, manifests, disk, watcher, subscriptions>>

NextOverlap ==
    \/ \E dirs \in HotBatches : LoadPluginsCall(dirs)
    \/ LoadPluginsSort
    \/ \E outcome \in LoaderOutcomes : LoadPluginDone(outcome)
    \/ CreateFailed
    \/ CreateDone
    \/ OnLoadDone
    \/ OnLoadFailed
    \/ \E onChange \in {"returns", "throws"} : WatchCall(onChange)
    \/ WatchStopped
    \/ WatchResumed
    \/ \E filePath \in HotPaths : ChangeEvent(filePath)
    \/ HandlerDone
    \/ OnUnloadDone
    \/ OnUnloadFailed
    \/ UnloadReturned
    \/ \E found \in BOOLEAN : RediscoverDone(found)
    \/ \E filePath \in HotPaths : OverlappingChange(filePath)
    \/ OverlappingShutdown
    \/ ShutdownStopped
    \/ ShutdownResumed
    \/ Resume

SpecOverlap == InitHotReload /\ [][NextOverlap]_vars

(***************************************************************************)
(* Specification of direct use of one DefaultPluginContext                 *)
(***************************************************************************)

\* createMetadata of the context's tests
CreateMetadata(id, pluginType) ==
    [id |-> id, name |-> id, pluginType |-> pluginType, version |-> <<1, 0, 0>>,
     description |-> Undefined, dependencies |-> <<>>, dir |-> DirOf(id)]

\* What a caller registers under an id: a plugin and its metadata.
Registrations(id) ==
    {[plugin |-> LibriaPlugin("api1", FALSE, FALSE),
      metadata |-> CreateMetadata(id, "test")],
     [plugin |-> LibriaPlugin("api2", FALSE, FALSE),
      metadata |-> CreateMetadata(id, "other")]}

RegisterCall(id, r, res) ==
    [op |-> "register", id |-> id, plugin |-> r.plugin, metadata |-> r.metadata,
     threw |-> res.threw, error |-> res.error, returned |-> NoPlugin,
     api |-> Undefined]

UnregisterCall(id, res) ==
    [op |-> "unregister", id |-> id, plugin |-> NoPlugin, metadata |-> NoMetadata,
     threw |-> FALSE, error |-> NoError, returned |-> res.value,
     api |-> Undefined]

GetPluginCall(id, res) ==
    [op |-> "getPlugin", id |-> id, plugin |-> NoPlugin, metadata |-> NoMetadata,
     threw |-> res.threw, error |-> res.error, returned |-> NoPlugin,
     api |-> res.value]

InitContext ==
    /\ SortIdle
    /\ plugins = <<>>
    /\ ctxCalls = <<>>
    /\ ctxPrev = <<>>
    /\ ManagerIdle

CtxRegister(id, r) ==
    /\ Len(ctxCalls) < MaxCalls
    /\ LET res == Register(plugins, id, r.plugin, r.metadata)
       IN  /\ plugins' = res.plugins
           /\ ctxCalls' = Append(ctxCalls, RegisterCall(id, r, res))
    /\ ctxPrev' = plugins
    /\ UNCHANGED <<sortVars, manifests, task, disk, watcher, subscriptions, parked>>

CtxUnregister(id) ==
    /\ Len(ctxCalls) < MaxCalls
    /\ LET res == Unregister(plugins, id)
       IN  /\ plugins' = res.plugins
           /\ ctxCalls' = Append(ctxCalls, UnregisterCall(id, res))
    /\ ctxPrev' = plugins
    /\ UNCHANGED <<sortVars, manifests, task, disk, watcher, subscriptions, parked>>

CtxGetPlugin(id) ==
    /\ Len(ctxCalls) < MaxCalls
    /\ ctxCalls' = Append(ctxCalls, GetPluginCall(id, GetPlugin(plugins, id)))
    /\ ctxPrev' = plugins
    /\ UNCHANGED <<sortVars, plugins, manifests, task, disk, watcher, subscriptions, parked>>

NextContext ==
    \/ \E id \in Ids : \E r \in Registrations(id) : CtxRegister(id, r)
    \/ \E id \in Ids : CtxUnregister(id)
    \/ \E id \in Ids : CtxGetPlugin(id)

SpecContext == InitContext /\ [][NextContext]_vars

(***************************************************************************)
(* Inputs of topologicalSort                                               *)
(***************************************************************************)

\* Versions and ranges of the descriptors of a dependency graph.
GraphVersion(id) ==
    CASE id = "a" -> <<1, 0, 0>>
      [] id = "b" -> <<1, 5, 0>>
      [] OTHER -> <<2, 0, 0>>
GraphRanges == {Caret(<<1, 0, 0>>), Caret(<<2, 0, 0>>)}
DepChoices == {Dep(i, r) : i \in Ids, r \in GraphRanges}

\* Versions and ranges of a single dependency edge a -> b.
PairVersions ==
    {<<0, 0, 3>>, <<0, 0, 4>>, <<0, 2, 5>>, <<0, 3, 0>>, <<1, 0, 0>>,
     <<1, 2, 3>>, <<1, 2, 5>>, <<1, 3, 0>>, <<1, 5, 0>>, <<2, 0, 0>>}
PairRanges ==
    {Exact(<<1, 0, 0>>), Exact(<<1, 2, 3>>),
     Caret(<<1, 0, 0>>), Caret(<<2, 0, 0>>), Caret(<<0, 2, 0>>), Caret(<<0, 0, 3>>),
     Tilde(<<1, 2, 0>>), Tilde(<<0, 2, 0>>),
     Between(<<1, 0, 0>>, <<2, 0, 0>>), Star}

\* Lists of n pairwise distinct ids.
IdLists(n) == {s \in [1..n -> Ids] : \A i, j \in 1..n : i # j => s[i] # s[j]}

RECURSIVE DepAssign(_, _)
\* The dependency lists of n descriptors declaring at most budget entries in all.
DepAssign(n, budget) ==
    IF n = 0 THEN {<<>>}
    ELSE UNION {{<<d>> \o rest : d \in [1..k -> DepChoices],
                                 rest \in DepAssign(n - 1, budget - k)} :
                k \in 0..budget}

\* A dependency graph over Ids: pairwise distinct ids in any order, each at
\* its version, at most MaxEdges dependency entries in all, each with a
\* range that some of the versions satisfy and some do not.
IsGraphInput(pkgs) ==
    \E n \in 0..Cardinality(Ids) :
        \E ds \in DepAssign(n, MaxEdges) :
            \E ids \in IdLists(n) :
                pkgs = [i \in 1..n |-> Manifest(ids[i], GraphVersion(ids[i]), ds[i])]

\* One dependency edge a -> b, with every kind of range, in both input orders.
IsPairInput(pkgs) ==
    \E r \in PairRanges, v \in PairVersions :
        \/ pkgs = <<Manifest("a", <<1, 0, 0>>, <<Dep("b", r)>>), Manifest("b", v, <<>>)>>
        \/ pkgs = <<Manifest("b", v, <<>>), Manifest("a", <<1, 0, 0>>, <<Dep("b", r)>>)>>

(***************************************************************************)
(* Specification of one call of topologicalSort                            *)
(***************************************************************************)

NotRun == [threw |-> FALSE, value |-> <<>>, error |-> NoError]

InitSort ==
    /\ (IsGraphInput(packages) \/ IsPairInput(packages))
    /\ sortPc = "call"
    /\ sortResult = NotRun
    /\ sortTrace = <<>>
    /\ plugins = <<>>
    /\ ctxCalls = <<>>
    /\ ctxPrev = <<>>
    /\ ManagerIdle

CallTopologicalSort ==
    /\ sortPc = "call"
    /\ sortResult' = TopologicalSort(packages)
    /\ sortTrace' = VisitTrace(packages)
    /\ sortPc' = "done"
    /\ UNCHANGED <<packages, plugins, ctxVars, manifests, task, disk, watcher, subscriptions,
                   parked>>

NextSort == CallTopologicalSort

SpecSort == InitSort /\ [][NextSort]_vars

(***************************************************************************)
(* loadPlugins with patterns that discover an id more than once            *)
(***************************************************************************)

\* Two directories hold a plugin with the id a, 1.0.0 in the first and 2.0.0
\* in the second; c requires a ^2.0.0.
SameId ==
    [id \in Ids |->
        CASE id = "a" -> PluginDir(Manifest("a", <<1, 0, 0>>, <<>>), TRUE, TRUE)
          [] id = "b" -> PluginDir([Manifest("a", <<2, 0, 0>>, <<>>)
                                      EXCEPT !.dir = DirOf("b")], TRUE, TRUE)
          [] OTHER -> PluginDir(Manifest("c", <<1, 0, 0>>,
                                <<Dep("a", Caret(<<2, 0, 0>>))>>), TRUE, FALSE)]

RepeatedFixtures == {SameId, Diamond}

InitRepeated ==
    /\ SortIdle
    /\ plugins = <<>>
    /\ ctxCalls = <<>>
    /\ ctxPrev = <<>>
    /\ manifests = <<>>
    /\ task = IdleTask
    /\ parked = IdleTask
    /\ disk \in RepeatedFixtures
    /\ watcher = "null"
    /\ subscriptions = <<>>

NextRepeated ==
    \/ \E dirs \in Batches : LoadPluginsCall(dirs)
    \/ LoadPluginsSort
    \/ \E outcome \in LoaderOutcomes : LoadPluginDone(outcome)
    \/ CreateFailed
    \/ CreateDone
    \/ OnLoadDone
    \/ OnLoadFailed

SpecRepeated == InitRepeated /\ [][NextRepeated]_vars

(***************************************************************************)
(* Vocabulary of the resolver's properties                                 *)
(***************************************************************************)

SortDone == sortPc = "done"

\* Every declared dependency entry: who declares it, on which id, which range.
DeclaredDeps(pkgs) ==
    UNION {{[from |-> pkgs[i].id,
             id |-> pkgs[i].dependencies[k].id,
             version |-> pkgs[i].dependencies[k].version] :
                k \in 1..Len(pkgs[i].dependencies)} :
           i \in 1..Len(pkgs)}

DistinctIds(pkgs) ==
    \A i, j \in 1..Len(pkgs) : i # j => pkgs[i].id # pkgs[j].id

\* The descriptor of an id of the input (ids pairwise distinct).
Descriptor(pkgs, id) == pkgs[CHOOSE i \in 1..Len(pkgs) : pkgs[i].id = id]

AllPresent(pkgs) == \A e \in DeclaredDeps(pkgs) : e.id \in PackageIds(pkgs)

\* The entries whose target is in the input with a version outside the range.
Unsatisfied(pkgs) ==
    {e \in DeclaredDeps(pkgs) :
        /\ e.id \in PackageIds(pkgs)
        /\ ~Satisfies(Descriptor(pkgs, e.id).version, e.version)}

Successors(pkgs, S) == {e.id : e \in {f \in DeclaredDeps(pkgs) : f.from \in S}}

RECURSIVE ReachableFrom(_, _, _)
ReachableFrom(pkgs, frontier, seen) ==
    LET new == Successors(pkgs, frontier) \ seen
    IN  IF new = {} THEN seen ELSE ReachableFrom(pkgs, new, seen \cup new)

Acyclic(pkgs) ==
    \A id \in PackageIds(pkgs) : id \notin ReachableFrom(pkgs, {id}, {})

Occurrences(s, x) == Cardinality({i \in 1..Len(s) : s[i] = x})

IsPermutation(s, t) ==
    /\ Len(s) = Len(t)
    /\ \A i \in 1..Len(t) : Occurrences(s, t[i]) = Occurrences(t, t[i])

PositionOf(s, id) == CHOOSE j \in 1..Len(s) : s[j].id = id

ElementsOf(s) == {s[i] : i \in 1..Len(s)}

(***************************************************************************)
(* Properties of topologicalSort (checked under SpecSort)                  *)
(***************************************************************************)

\* C1: for an input with pairwise distinct ids, an acyclic graph, every
\* dependency present and every range satisfied, topologicalSort returns a
\* permutation of the input in which every dependency is strictly before
\* the descriptor that declares it.
C1_DependenciesFirst ==
    (/\ SortDone
     /\ DistinctIds(packages)
     /\ Acyclic(packages)
     /\ AllPresent(packages)
     /\ Unsatisfied(packages) = {})
    => /\ ~sortResult.threw
       /\ IsPermutation(sortResult.value, packages)
       /\ \A e \in DeclaredDeps(packages) :
            PositionOf(sortResult.value, e.id) < PositionOf(sortResult.value, e.from)

\* A sorted three-descriptor graph whose first input descriptor has two
\* dependencies, one of which depends on the other.
C1_Witness ==
    /\ SortDone
    /\ ~sortResult.threw
    /\ Len(packages) = 3
    /\ Len(packages[1].dependencies) = 2
    /\ Cardinality({e.id : e \in DeclaredDeps(packages)}) = 2
    /\ Cardinality({e.from : e \in DeclaredDeps(packages)}) = 2
    /\ Acyclic(packages) /\ AllPresent(packages) /\ Unsatisfied(packages) = {}

\* C3: a CircularDependencyError carries a cycle whose first and last
\* elements are equal, whose consecutive pairs are declared dependency
\* edges and which repeats no other id (the slice of the path from the
\* first occurrence of the id reached again); with every dependency present
\* and every range satisfied a cyclic input fails with that error, and the
\* cycles a->b->a and a->b->c->a are reported with all their ids.
C3_CycleReported ==
    /\ (SortDone /\ sortResult.error.name = "CircularDependencyError")
        => LET c == sortResult.error.cycle
               n == Len(sortResult.error.cycle)
           IN  /\ n >= 2
               /\ c[1] = c[n]
               /\ \A k \in 1..(n - 1) :
                    \E e \in DeclaredDeps(packages) : e.from = c[k] /\ e.id = c[k + 1]
               /\ \A i, j \in 1..(n - 1) : i # j => c[i] # c[j]
    /\ (SortDone /\ AllPresent(packages) /\ Unsatisfied(packages) = {}
                 /\ ~Acyclic(packages))
        => /\ sortResult.threw
           /\ sortResult.error.name = "CircularDependencyError"
           /\ \A x, y \in Ids :
                (x # y /\ {<<e.from, e.id>> : e \in DeclaredDeps(packages)}
                            = {<<x, y>>, <<y, x>>})
                => ElementsOf(sortResult.error.cycle) = {x, y}
           /\ \A x, y, z \in Ids :
                (x # y /\ y # z /\ x # z
                    /\ {<<e.from, e.id>> : e \in DeclaredDeps(packages)}
                            = {<<x, y>>, <<y, z>>, <<z, x>>})
                => ElementsOf(sortResult.error.cycle) = {x, y, z}

\* The three-node cycle a->b->c->a has been reported.
C3_Witness ==
    /\ SortDone
    /\ sortResult.error.name = "CircularDependencyError"
    /\ Len(sortResult.error.cycle) = 4

\* C4: a DependencyNotFoundError names an id that is not in the input and,
\* as requestedBy, a descriptor of the input that declares a dependency on
\* that id (the immediate requester); an input whose only defect is a
\* missing dependency, at any depth, fails with that error.
C4_MissingDependency ==
    /\ (SortDone /\ sortResult.error.name = "DependencyNotFoundError")
        => /\ sortResult.error.dependencyId \notin PackageIds(packages)
           /\ sortResult.error.requestedBy \in PackageIds(packages)
           /\ \E e \in DeclaredDeps(packages) :
                /\ e.from = sortResult.error.requestedBy
                /\ e.id = sortResult.error.dependencyId
    /\ (SortDone /\ ~AllPresent(packages) /\ Acyclic(packages)
                 /\ Unsatisfied(packages) = {})
        => /\ sortResult.threw
           /\ sortResult.error.name = "DependencyNotFoundError"

\* A missing dependency one level down: the first input descriptor depends
\* on the requester, and only the requester declares the missing id.
C4_Witness ==
    /\ SortDone
    /\ sortResult.error.name = "DependencyNotFoundError"
    /\ sortResult.error.requestedBy # packages[1].id
    /\ \E e \in DeclaredDeps(packages) :
            e.from = packages[1].id /\ e.id = sortResult.error.requestedBy
    /\ \A e \in DeclaredDeps(packages) :
            e.id = sortResult.error.dependencyId => e.from = sortResult.error.requestedBy

\* C5: when a descriptor A declares one dependency, on B, topologicalSort
\* of A and B succeeds if B's version satisfies the declared range and
\* otherwise fails with VersionMismatchError(B's id, B's version, the
\* declared range, A's id), for exact, caret, tilde and comparator ranges;
\* every VersionMismatchError reported names a declared entry that the
\* target's version does not satisfy.
C5_VersionValidated ==
    /\ (SortDone /\ sortResult.error.name = "VersionMismatchError")
        => /\ sortResult.error.packageId \in PackageIds(packages)
           /\ sortResult.error.actualVersion =
                PackageMap(packages)[sortResult.error.packageId].version
           /\ ~Satisfies(sortResult.error.actualVersion,
                         sortResult.error.requiredVersion)
           /\ \E e \in DeclaredDeps(packages) :
                /\ e.from = sortResult.error.requestedBy
                /\ e.id = sortResult.error.packageId
                /\ e.version = sortResult.error.requiredVersion
    /\ \A i, j \in 1..Len(packages) :
        (/\ SortDone
         /\ Len(packages) = 2
         /\ packages[i].id # packages[j].id
         /\ packages[j].dependencies = <<>>
         /\ Len(packages[i].dependencies) = 1
         /\ packages[i].dependencies[1].id = packages[j].id)
        => LET A == packages[i]
               B == packages[j]
               r == packages[i].dependencies[1].version
           IN  IF Satisfies(B.version, r)
               THEN ~sortResult.threw /\ sortResult.value = <<B, A>>
               ELSE /\ sortResult.threw
                    /\ sortResult.error = VersionMismatchError(B.id, B.version, r, A.id)
    /\ (SortDone /\ Len(packages) = 2 /\ packages[1].id = "a"
                 /\ packages[2] = Manifest("b", <<1, 5, 0>>, <<>>)
                 /\ packages[1].dependencies = <<Dep("b", Caret(<<2, 0, 0>>))>>)
        => sortResult.error =
             VersionMismatchError("b", <<1, 5, 0>>, Caret(<<2, 0, 0>>), "a")
    /\ (SortDone /\ Len(packages) = 2 /\ packages[1].id = "a"
                 /\ packages[1].dependencies \in
                        {<<Dep("b", Exact(<<1, 2, 5>>))>>, <<Dep("b", Caret(<<1, 0, 0>>))>>,
                         <<Dep("b", Tilde(<<1, 2, 0>>))>>,
                         <<Dep("b", Between(<<1, 0, 0>>, <<2, 0, 0>>))>>}
                 /\ packages[2] = Manifest("b", <<1, 2, 5>>, <<>>))
        => ~sortResult.threw

\* A comparator range rejected: a requires b in a range b's version is outside.
C5_Witness ==
    /\ SortDone
    /\ Len(packages) = 2
    /\ sortResult.error.name = "VersionMismatchError"
    /\ sortResult.error.requiredVersion.kind = "range"
    /\ sortResult.error.requestedBy = "a"

\* C6: when two descriptors depend on the same dependency, one with a range
\* its version satisfies and one with a range it does not, and the input
\* has no other defect, topologicalSort fails with VersionMismatchError for
\* that dependency whose requestedBy is the requester with the unsatisfied
\* range, whatever the input order.
C6_ConflictingRequester ==
    \A a, b, c \in Ids :
        (/\ SortDone
         /\ a # c /\ a # b /\ c # b
         /\ AllPresent(packages) /\ Acyclic(packages)
         /\ Unsatisfied(packages) # {}
         /\ \A e \in Unsatisfied(packages) : e.from = c /\ e.id = b
         /\ \E e \in DeclaredDeps(packages) \ Unsatisfied(packages) :
                e.from = a /\ e.id = b)
        => /\ sortResult.threw
           /\ sortResult.error.name = "VersionMismatchError"
           /\ sortResult.error.packageId = b
           /\ sortResult.error.requestedBy = c
           /\ sortResult.error.actualVersion = Descriptor(packages, b).version
           /\ \E e \in Unsatisfied(packages) :
                e.version = sortResult.error.requiredVersion

\* The dependency is first in the input, so it is already done (root-level
\* visit) when the satisfied requester and then the conflicting one are
\* traversed.
C6_Witness ==
    /\ SortDone
    /\ Len(packages) = 3
    /\ sortResult.error.name = "VersionMismatchError"
    /\ sortResult.error.packageId = packages[1].id
    /\ sortResult.error.requestedBy = packages[3].id
    /\ packages[1].dependencies = <<>>
    /\ Len(packages[3].dependencies) = 1
    /\ \E e \in DeclaredDeps(packages) \ Unsatisfied(packages) :
            e.from = packages[2].id /\ e.id = packages[1].id

(***************************************************************************)
(* Properties of DefaultPluginContext (checked under SpecContext)          *)
(***************************************************************************)

LastCall == ctxCalls[Len(ctxCalls)]

\* An id is expected present when some successful register of it is followed
\* by no unregister of it.
ExpectedPresent(calls, id) ==
    \E i \in 1..Len(calls) :
        /\ calls[i].op = "register" /\ calls[i].id = id /\ ~calls[i].threw
        /\ \A j \in (i + 1)..Len(calls) :
                ~(calls[j].op = "unregister" /\ calls[j].id = id)

\* C9: register on an id that is present throws DuplicatePluginError with
\* that id and leaves the registry unchanged, so getPlugin, getPluginInstance
\* and getPluginMetadata still return what was stored before; on an absent
\* id it inserts the entry and changes no other entry.
C9_RegisterDuplicate ==
    (ctxCalls # <<>> /\ LastCall.op = "register")
    => IF HasPlugin(ctxPrev, LastCall.id)
       THEN /\ LastCall.threw
            /\ LastCall.error = DuplicatePluginError(LastCall.id)
            /\ plugins = ctxPrev
            /\ GetPlugin(plugins, LastCall.id) = GetPlugin(ctxPrev, LastCall.id)
            /\ GetPluginInstance(plugins, LastCall.id)
                    = GetPluginInstance(ctxPrev, LastCall.id)
            /\ GetPluginMetadata(plugins, LastCall.id)
                    = GetPluginMetadata(ctxPrev, LastCall.id)
       ELSE /\ ~LastCall.threw
            /\ HasPlugin(plugins, LastCall.id)
            /\ GetPluginInstance(plugins, LastCall.id) = LastCall.plugin
            /\ GetPluginMetadata(plugins, LastCall.id) = LastCall.metadata
            /\ GetPlugin(plugins, LastCall.id).value = LastCall.plugin.api
            /\ Len(plugins) = Len(ctxPrev) + 1
            /\ \A id \in Ids \ {LastCall.id} :
                    /\ HasPlugin(plugins, id) = HasPlugin(ctxPrev, id)
                    /\ GetPluginInstance(plugins, id) = GetPluginInstance(ctxPrev, id)
                    /\ GetPluginMetadata(plugins, id) = GetPluginMetadata(ctxPrev, id)

\* A second register of an id with another plugin and other metadata threw.
C9_Witness ==
    /\ ctxCalls # <<>>
    /\ LastCall.op = "register"
    /\ LastCall.threw
    /\ GetPluginInstance(plugins, LastCall.id) # LastCall.plugin
    /\ GetPluginMetadata(plugins, LastCall.id) # LastCall.metadata

\* C10: after any sequence of register and unregister calls on a context
\* that starts empty, hasPlugin(id) is true exactly when the last successful
\* register(id) is followed by no unregister(id); no two entries have the
\* same id, and getPluginIds lists each registered id exactly once.
C10_HasPluginExact ==
    /\ \A id \in Ids : HasPlugin(plugins, id) <=> ExpectedPresent(ctxCalls, id)
    /\ \A i, j \in 1..Len(plugins) : i # j => plugins[i].key # plugins[j].key
    /\ \A id \in Ids :
            Occurrences(GetPluginIds(plugins), id)
                = IF ExpectedPresent(ctxCalls, id) THEN 1 ELSE 0

\* An id was registered, unregistered and registered again, and, after a
\* rejected duplicate register, is present once.
C10_Witness ==
    /\ Len(ctxCalls) = 4
    /\ \A i \in 1..4 : ctxCalls[i].id = "a"
    /\ ctxCalls[1].op = "register" /\ ctxCalls[2].op = "unregister"
    /\ ctxCalls[3].op = "register" /\ ctxCalls[4].op = "register"
    /\ ctxCalls[4].threw
    /\ HasPlugin(plugins, "a") /\ ~HasPlugin(plugins, "b")

\* The index of the last successful register of an id that is expected present.
LastRegisterIndex(calls, id) ==
    CHOOSE i \in 1..Len(calls) :
        /\ calls[i].op = "register" /\ calls[i].id = id /\ ~calls[i].threw
        /\ \A j \in (i + 1)..Len(calls) :
                ~(calls[j].op = "register" /\ calls[j].id = id /\ ~calls[j].threw)

\* C11: getPlugin(id) returns the api of the plugin most recently registered
\* under id when id is present, throws PluginNotFoundError(id) when id was
\* never registered or was unregistered since, and leaves the registry as it
\* was.
C11_GetPlugin ==
    (ctxCalls # <<>> /\ LastCall.op = "getPlugin")
    => /\ plugins = ctxPrev
       /\ IF ExpectedPresent(ctxCalls, LastCall.id)
          THEN /\ ~LastCall.threw
               /\ LastCall.api
                    = ctxCalls[LastRegisterIndex(ctxCalls, LastCall.id)].plugin.api
          ELSE /\ LastCall.threw
               /\ LastCall.error = PluginNotFoundError(LastCall.id)

\* After register(a, api1), unregister(a), register(a, api2), getPlugin(a)
\* returns api2.
C11_Witness ==
    /\ Len(ctxCalls) = 4
    /\ \A i \in 1..4 : ctxCalls[i].id = "a"
    /\ ctxCalls[1].op = "register" /\ ctxCalls[1].plugin.api = "api1"
    /\ ctxCalls[2].op = "unregister"
    /\ ctxCalls[3].op = "register" /\ ctxCalls[3].plugin.api = "api2"
    /\ ctxCalls[4].op = "getPlugin" /\ ctxCalls[4].api = "api2"

\* C12: unregister(id) of a present id removes exactly that entry and
\* returns the stored plugin, every other entry staying as and where it was;
\* of an absent id it returns undefined, throws nothing and leaves the
\* registry unchanged.
C12_Unregister ==
    (ctxCalls # <<>> /\ LastCall.op = "unregister")
    => /\ ~LastCall.threw
       /\ ~HasPlugin(plugins, LastCall.id)
       /\ LastCall.returned = GetPluginInstance(ctxPrev, LastCall.id)
       /\ \A id \in Ids \ {LastCall.id} :
            /\ HasPlugin(plugins, id) = HasPlugin(ctxPrev, id)
            /\ GetPluginInstance(plugins, id) = GetPluginInstance(ctxPrev, id)
            /\ GetPluginMetadata(plugins, id) = GetPluginMetadata(ctxPrev, id)
       /\ \A i, j \in 1..Len(plugins) :
            i < j => MapIndex(ctxPrev, plugins[i].key) < MapIndex(ctxPrev, plugins[j].key)
       /\ IF HasPlugin(ctxPrev, LastCall.id)
          THEN /\ Len(plugins) = Len(ctxPrev) - 1
               /\ LastCall.returned # NoPlugin
          ELSE /\ plugins = ctxPrev
               /\ LastCall.returned = NoPlugin

\* The middle one of three entries was unregistered.
C12_Witness ==
    /\ Len(ctxCalls) = 4
    /\ LastCall.op = "unregister"
    /\ Len(ctxPrev) = 3
    /\ LastCall.id = ctxPrev[2].key
    /\ LastCall.returned = ctxPrev[2].value.plugin

PluginTypes == {"test", "other", "nonexistent-type"}

\* The metadata the history says is stored under a present id.
ExpectedMetadata(calls, id) == calls[LastRegisterIndex(calls, id)].metadata

InRegistrationOrder(calls, ids) ==
    \A i, j \in 1..Len(ids) :
        i < j => LastRegisterIndex(calls, ids[i]) < LastRegisterIndex(calls, ids[j])

\* C13: after any sequence of register and unregister calls,
\* getPluginsByType(type) holds exactly the metadata of the present entries
\* of that type (nothing when none matches), getAllMetadata and getPluginIds
\* hold exactly the present entries, each once, and all three list them in
\* the order of their registrations.
C13_MetadataQueries ==
    /\ \A t \in PluginTypes :
         LET res == GetPluginsByType(plugins, t)
         IN  /\ ElementsOf(res)
                  = {ExpectedMetadata(ctxCalls, id) :
                        id \in {x \in Ids : /\ ExpectedPresent(ctxCalls, x)
                                            /\ ExpectedMetadata(ctxCalls, x).pluginType = t}}
             /\ Len(res) = Cardinality(ElementsOf(res))
             /\ InRegistrationOrder(ctxCalls, [i \in 1..Len(res) |-> res[i].id])
    /\ LET all == GetAllMetadata(plugins)
       IN  /\ ElementsOf(all)
                = {ExpectedMetadata(ctxCalls, id) :
                        id \in {x \in Ids : ExpectedPresent(ctxCalls, x)}}
           /\ Len(all) = Cardinality(ElementsOf(all))
           /\ InRegistrationOrder(ctxCalls, [i \in 1..Len(all) |-> all[i].id])
    /\ LET ids == GetPluginIds(plugins)
       IN  /\ ElementsOf(ids) = {x \in Ids : ExpectedPresent(ctxCalls, x)}
           /\ Len(ids) = Cardinality(ElementsOf(ids))
           /\ InRegistrationOrder(ctxCalls, ids)

\* a was registered first, unregistered and registered again after b: of
\* the two entries of type "test", b comes first; c has another type.
C13_Witness ==
    /\ Len(ctxCalls) = 4
    /\ ctxCalls[1].op = "register" /\ ctxCalls[1].id = "a"
    /\ ctxCalls[2].op = "register" /\ ctxCalls[2].id = "b"
    /\ ctxCalls[3].op = "unregister" /\ ctxCalls[3].id = "a"
    /\ ctxCalls[4].op = "register" /\ ctxCalls[4].id = "a"
    /\ Len(GetPluginsByType(plugins, "test")) = 2
    /\ GetPluginsByType(plugins, "test")[1].id = "b"
    /\ GetPluginsByType(plugins, "other") = <<>>

(***************************************************************************)
(* Further properties of topologicalSort (checked under SpecSort)          *)
(***************************************************************************)

\* The ids of the descriptors that declare a dependency on their own id.
SelfDependent(pkgs) == {e.from : e \in {f \in DeclaredDeps(pkgs) : f.id = f.from}}

\* The input without the entries of descriptors on their own id.
StripSelf(pkgs) ==
    [i \in 1..Len(pkgs) |->
        [pkgs[i] EXCEPT !.dependencies =
            SelectSeq(@, LAMBDA d : d.id # pkgs[i].id)]]

\* C27: an input with a descriptor that depends on its own id fails; when the
\* input has no other defect the error is CircularDependencyError with the
\* cycle [A, A] of such a descriptor A, whether or not the version of A
\* satisfies the range it declares on itself; and every reported cycle of
\* two elements is [A, A] for a self-dependent A.
C27_SelfDependency ==
    /\ (SortDone /\ SelfDependent(packages) # {}) => sortResult.threw
    /\ (/\ SortDone /\ SelfDependent(packages) # {}
        /\ AllPresent(packages)
        /\ Acyclic(StripSelf(packages))
        /\ Unsatisfied(StripSelf(packages)) = {})
       => \E x \in SelfDependent(packages) :
             sortResult.error = CircularDependencyError(<<x, x>>)
    /\ (/\ SortDone /\ sortResult.error.name = "CircularDependencyError"
        /\ Len(sortResult.error.cycle) = 2)
       => /\ sortResult.error.cycle[1] = sortResult.error.cycle[2]
          /\ sortResult.error.cycle[1] \in SelfDependent(packages)

\* a is reached as a dependency of b and declares a range on itself that its
\* version does not satisfy.
C27_Witness ==
    /\ SortDone
    /\ Len(packages) >= 2
    /\ packages[1].id = "b"
    /\ \E e \in Unsatisfied(packages) : e.from = "a" /\ e.id = "a"
    /\ sortResult.error = CircularDependencyError(<<"a", "a">>)

\* C28: the sort of the empty list is the empty list; the sort of a single
\* descriptor without dependencies is that descriptor; the sort of descriptors
\* with distinct ids and no dependency at all is the input, in input order.
C28_NoDependencies ==
    /\ (SortDone /\ packages = <<>>)
       => (~sortResult.threw /\ sortResult.value = <<>>)
    /\ (SortDone /\ Len(packages) = 1 /\ packages[1].dependencies = <<>>)
       => (~sortResult.threw /\ sortResult.value = <<packages[1]>>)
    /\ (SortDone /\ DistinctIds(packages) /\ DeclaredDeps(packages) = {})
       => (~sortResult.threw /\ sortResult.value = packages)

\* Three independent descriptors given in the order c, a, b.
C28_Witness ==
    /\ SortDone
    /\ Len(packages) = 3
    /\ DeclaredDeps(packages) = {}
    /\ <<packages[1].id, packages[2].id, packages[3].id>> = <<"c", "a", "b">>
    /\ ~sortResult.threw
    /\ sortResult.value = packages

\* The calls of visit observed in a traversal, in order.
VisitEntries(tr) == SelectSeq(tr, LAMBDA e : e.kind = "visit")

\* The ids of the calls of visit made with a given path, in order.
VisitsUnder(tr, path) ==
    LET es == SelectSeq(tr, LAMBDA e : e.kind = "visit" /\ e.path = path)
    IN  [i \in 1..Len(es) |-> es[i].id]

IdsOf(pkgs) == [i \in 1..Len(pkgs) |-> pkgs[i].id]

DepIdsOf(pkg) == [i \in 1..Len(pkg.dependencies) |-> pkg.dependencies[i].id]

IsPrefix(s, t) == Len(s) <= Len(t) /\ s = SubSeq(t, 1, Len(s))

\* The requirement of a call of visit is not met by the package it names.
EntryUnsatisfied(pkgs, e) ==
    /\ e.version # NoRange
    /\ e.id \in PackageIds(pkgs)
    /\ ~Satisfies(PackageMap(pkgs)[e.id].version, e.version)

\* What a call of visit must do, from the marks at the call: the checks in
\* the order done, in progress, not found, version.
ExpectedOutcome(pkgs, e) ==
    IF e.id \in e.visited
    THEN IF EntryUnsatisfied(pkgs, e) THEN "VersionMismatchError" ELSE "none"
    ELSE IF e.id \in e.visiting THEN "CircularDependencyError"
    ELSE IF e.id \notin PackageIds(pkgs) THEN "DependencyNotFoundError"
    ELSE IF EntryUnsatisfied(pkgs, e) THEN "VersionMismatchError"
    ELSE "none"

\* The exception names the id of the call and its immediate requester.
ErrorAbout(err, e) ==
    CASE err.name = "CircularDependencyError" ->
            /\ err.cycle[Len(err.cycle)] = e.id
            /\ err.cycle[1] = e.id
      [] err.name = "DependencyNotFoundError" ->
            err.dependencyId = e.id /\ err.requestedBy = LastOf(e.path)
      [] err.name = "VersionMismatchError" ->
            /\ err.packageId = e.id
            /\ err.requiredVersion = e.version
            /\ err.requestedBy = LastOf(e.path)
      [] OTHER -> FALSE

\* C29: the checks of a visit are made in the order done, in progress, not
\* found, version: a dependency entry with an unsatisfied range on an id in
\* progress gives CircularDependencyError, on an id that is done
\* VersionMismatchError; the roots are visited in input order and the
\* dependencies depth-first in declaration order, and the exception thrown is
\* the one of the first failing visit in that order.
C29_CheckOrder ==
    SortDone =>
        LET vs == VisitEntries(sortTrace)
        IN  /\ IsPrefix(VisitsUnder(sortTrace, <<>>), IdsOf(packages))
            /\ \A i \in 1..Len(vs) :
                  /\ {vs[i].path[k] : k \in 1..Len(vs[i].path)} = vs[i].visiting
                  /\ Len(vs[i].path) = Cardinality(vs[i].visiting)
                  /\ vs[i].path # <<>> =>
                        /\ LastOf(vs[i].path) \in PackageIds(packages)
                        /\ IsPrefix(VisitsUnder(sortTrace, vs[i].path),
                                    DepIdsOf(PackageMap(packages)[LastOf(vs[i].path)]))
                  /\ i < Len(vs) => ExpectedOutcome(packages, vs[i]) = "none"
            /\ ~sortResult.threw =>
                  /\ VisitsUnder(sortTrace, <<>>) = IdsOf(packages)
                  /\ \A i \in 1..Len(vs) : ExpectedOutcome(packages, vs[i]) = "none"
            /\ sortResult.threw =>
                  /\ vs # <<>>
                  /\ sortResult.error.name = ExpectedOutcome(packages, vs[Len(vs)])
                  /\ ErrorAbout(sortResult.error, vs[Len(vs)])

\* b closes the cycle a -> b -> a with a range that the version of a does
\* not satisfy, and the cycle is what is reported.
C29_Witness ==
    /\ SortDone
    /\ sortResult.error = CircularDependencyError(<<"a", "b", "a">>)
    /\ LET vs == VisitEntries(sortTrace)
       IN  /\ vs[Len(vs)].id = "a"
           /\ vs[Len(vs)].path = <<"a", "b">>
           /\ EntryUnsatisfied(packages, vs[Len(vs)])

\* Inputs in which an id occurs more than once: two or three descriptors of
\* a and b, each entry with its own version and at most one dependency.
RepeatedVersions == {<<1, 0, 0>>, <<2, 0, 0>>}
RepeatedDeps ==
    {<<>>} \cup {<<Dep(i, Caret(<<1, 0, 0>>))>> : i \in {"a", "b", "c"}}

IsRepeatedInput(pkgs) ==
    \E n \in 2..3 :
        \E ids \in [1..n -> {"a", "b"}] :
            \E vs \in [1..n -> RepeatedVersions] :
                \E ds \in [1..n -> RepeatedDeps] :
                    /\ \E i, j \in 1..n : i # j /\ ids[i] = ids[j]
                    /\ pkgs = [i \in 1..n |-> Manifest(ids[i], vs[i], ds[i])]

\* One call of topologicalSort on any finite input: the inputs of SpecSort
\* and the inputs with repeated entries.
InitSortAny ==
    /\ (IsGraphInput(packages) \/ IsPairInput(packages) \/ IsRepeatedInput(packages))
    /\ sortPc = "call"
    /\ sortResult = NotRun
    /\ sortTrace = <<>>
    /\ plugins = <<>>
    /\ ctxCalls = <<>>
    /\ ctxPrev = <<>>
    /\ ManagerIdle

SpecSortAny == InitSortAny /\ [][NextSort]_vars

\* A second call of topologicalSort, on the array the first call returned.
CallOnResult ==
    /\ sortPc = "done"
    /\ ~sortResult.threw
    /\ packages' = sortResult.value
    /\ sortResult' = TopologicalSort(sortResult.value)
    /\ sortTrace' = VisitTrace(sortResult.value)
    /\ sortPc' = "resorted"
    /\ UNCHANGED <<plugins, ctxVars, manifests, task, disk, watcher, subscriptions, parked>>

\* Mutant: sorted, visiting and visited are kept outside the function, and
\* the second call goes on with what the first call left in them.
CallAgainKeepingState ==
    /\ sortPc = "done"
    /\ LET st == VisitAll(PackageMap(packages),
                          [SortRun(packages) EXCEPT !.error = NoError,
                                                    !.trace = <<>>],
                          packages, 1)
       IN  /\ sortResult' =
                 IF st.error = NoError
                 THEN [threw |-> FALSE, value |-> st.sorted, error |-> NoError]
                 ELSE [threw |-> TRUE, value |-> <<>>, error |-> st.error]
           /\ sortTrace' = st.trace
    /\ sortPc' = "repeated"
    /\ UNCHANGED <<packages, plugins, ctxVars, manifests, task, disk, watcher, subscriptions,
                   parked>>

\* A second call of topologicalSort on the same input: visited, visiting and
\* sorted are created anew by the call.
CallAgain ==
    /\ sortPc = "done"
    /\ sortResult' = TopologicalSort(packages)
    /\ sortTrace' = VisitTrace(packages)
    /\ sortPc' = "repeated"
    /\ UNCHANGED <<packages, plugins, ctxVars, manifests, task, disk, watcher, subscriptions,
                   parked>>

NextSortTwice == CallTopologicalSort \/ CallOnResult \/ CallAgain

SpecSortTwice == InitSortAny /\ [][NextSortTwice]_vars

MarksOf(tr, kind, id) ==
    Cardinality({i \in 1..Len(tr) : tr[i].kind = kind /\ tr[i].id = id})

\* The number of dependency entries of the input.
EntryCount(pkgs) ==
    LET RECURSIVE Sum(_)
        Sum(i) == IF i = 0 THEN 0 ELSE Len(pkgs[i].dependencies) + Sum(i - 1)
    IN  Sum(Len(pkgs))

\* C30: topologicalSort terminates on every finite input, with cycles,
\* self-dependencies, missing dependencies or repeated entries: visit is
\* called at most once per input entry and once per dependency entry; each
\* id is marked in progress at most once and done at most once, done only
\* after in progress; and at every point no id is both in progress and done,
\* an id that is done stays done, and an id leaves the ids in progress only
\* by becoming done.
C30_Terminates ==
    SortDone =>
        /\ sortResult.threw \/ PackageIds(packages) =
                {sortResult.value[i].id : i \in 1..Len(sortResult.value)}
        /\ Len(VisitEntries(sortTrace)) <= Len(packages) + EntryCount(packages)
        /\ \A id \in Ids :
              /\ MarksOf(sortTrace, "visiting", id) <= 1
              /\ MarksOf(sortTrace, "done", id) <= MarksOf(sortTrace, "visiting", id)
        /\ \A i \in 1..Len(sortTrace) :
              /\ sortTrace[i].visiting \cap sortTrace[i].visited = {}
              /\ sortTrace[i].visiting \cup sortTrace[i].visited
                    \subseteq PackageIds(packages)
              /\ sortTrace[i].kind = "visiting" =>
                    /\ sortTrace[i].id \in sortTrace[i].visiting
                    /\ i > 1
                    /\ sortTrace[i - 1].kind = "visit"
                    /\ sortTrace[i - 1].id = sortTrace[i].id
                    /\ sortTrace[i].id \notin
                          sortTrace[i - 1].visiting \cup sortTrace[i - 1].visited
              /\ sortTrace[i].kind = "done" =>
                    /\ sortTrace[i].id \in sortTrace[i].visited
                    /\ i > 1
                    /\ sortTrace[i].id \in sortTrace[i - 1].visiting
              /\ i > 1 =>
                    /\ sortTrace[i - 1].visited \subseteq sortTrace[i].visited
                    /\ sortTrace[i - 1].visiting \ sortTrace[i].visiting
                          \subseteq sortTrace[i].visited
                    /\ sortTrace[i].kind = "visit" =>
                          /\ sortTrace[i].visiting = sortTrace[i - 1].visiting
                          /\ sortTrace[i].visited = sortTrace[i - 1].visited

\* a occurs twice, its last entry depends on b and b depends on a: the call
\* ends with the cycle, a and b in progress and none done.
C30_Witness ==
    /\ SortDone
    /\ Len(packages) = 3
    /\ ~DistinctIds(packages)
    /\ sortResult.error = CircularDependencyError(<<"a", "b", "a">>)
    /\ MarksOf(sortTrace, "visiting", "a") = 1
    /\ MarksOf(sortTrace, "visiting", "b") = 1
    /\ MarksOf(sortTrace, "done", "a") = 0

(***************************************************************************)
(* Properties of PluginManager.loadPlugins (checked under SpecManager)     *)
(***************************************************************************)

HasEvent(events, ev, id) == \E i \in 1..Len(events) : events[i] = Event(ev, id)

EventsAbout(events, id) == {i \in 1..Len(events) : events[i].id = id}

\* The registry entry loadSinglePlugin makes for a manifest.
LoadedEntry(manifest) ==
    [key |-> manifest.id,
     value |-> RegisteredPlugin(Create(disk, manifest), manifestToMetadata(manifest))]

ResolutionErrors ==
    {"CircularDependencyError", "DependencyNotFoundError", "VersionMismatchError"}

\* C2: within one loadPlugins call, at the moment a plugin's factory create
\* is invoked (the create call is the last thing that happened), every
\* dependency id declared in its manifest is registered (hasPlugin is true),
\* was registered by this call, and its onLoad, if it declares one, has
\* completed.
C2_DependenciesReady ==
    (/\ task.op = "loadPlugins"
     /\ task.events # <<>> /\ task.events[Len(task.events)].ev = "create")
    => LET manifest == PackageMap(task.batch)[task.events[Len(task.events)].id]
       IN  \A i \in 1..Len(manifest.dependencies) :
              LET d == manifest.dependencies[i].id
              IN  /\ HasPlugin(plugins, d)
                  /\ HasEvent(task.events, "register", d)
                  /\ GetPluginInstance(plugins, d).onLoad
                        => HasEvent(task.events, "onLoadDone", d)

\* create of plugin a of the chain a -> b -> c, discovered in the order
\* a, b, c, is invoked; b declares onLoad.
C2_Witness ==
    /\ task.pc = "create"
    /\ task.dirs = <<"a", "b", "c">>
    /\ task.events[Len(task.events)] = Event("create", "a")
    /\ Len(task.sorted[task.k].dependencies) > 0
    /\ GetPluginInstance(plugins, "b").onLoad
    /\ Len(plugins) = 2

\* C7: when resolution of the batch fails, loadPlugins rejects with the
\* error of the resolver, which is one of the three resolution errors; no
\* loader call, create, register or onLoad has happened, and the registry
\* and the manifest map are what they were before the call.
C7_ResolutionAborts ==
    (task.op = "loadPlugins" /\ TopologicalSort(task.batch).threw)
    => /\ task.pc = "done"
       /\ task.result = Rejected(TopologicalSort(task.batch).error)
       /\ task.result.error.name \in ResolutionErrors
       /\ task.events = <<>>
       /\ plugins = task.before.plugins
       /\ manifests = task.before.manifests

\* With c loaded by an earlier call, a batch holding the cycle a -> b -> a
\* is rejected.
C7_Witness ==
    /\ task.pc = "done"
    /\ task.result.state = "rejected"
    /\ task.result.error.name = "CircularDependencyError"
    /\ Len(task.batch) >= 2
    /\ HasPlugin(plugins, "c")

\* C8: when the loader, create, (register) or onLoad fails for descriptor k
\* of the sorted batch, nothing happens after the failure, loadPlugins is
\* rejected with that failure, no descriptor after k is loaded, instantiated
\* or registered, and the registry is the one before the call followed by
\* the entries of the descriptors before k (and of k when the failure came
\* after its registration), in order; no onUnload is invoked.
C8_FailureAbortsRest ==
    \A p \in 1..Len(task.events) :
        (task.op = "loadPlugins" /\ task.events[p].ev = "throw")
        => LET sorted == TopologicalSort(task.batch).value
               k == PositionOf(sorted, task.events[p].id)
               n == IF HasEvent(task.events, "register", sorted[k].id)
                    THEN k ELSE k - 1
           IN  /\ p = Len(task.events)
               /\ task.pc = "done"
               /\ task.result.state = "rejected"
               /\ task.result.error.id = sorted[k].id
               /\ \A j \in (k + 1)..Len(sorted) :
                     /\ EventsAbout(task.events, sorted[j].id) = {}
                     /\ HasPlugin(plugins, sorted[j].id)
                            = HasPlugin(task.before.plugins, sorted[j].id)
               /\ \A j \in 1..(k - 1) :
                     /\ HasPlugin(plugins, sorted[j].id)
                     /\ MapHas(manifests, sorted[j].id)
                     /\ HasEvent(task.events, "register", sorted[j].id)
               /\ plugins = task.before.plugins
                               \o [j \in 1..n |-> LoadedEntry(sorted[j])]
               /\ \A i \in 1..Len(task.events) : task.events[i].ev # "onUnload"

\* The factory of the second of three descriptors failed: the first one is
\* registered, the third one was never touched.
C8_Witness ==
    /\ task.pc = "done"
    /\ task.result.state = "rejected"
    /\ task.result.error.name = "FactoryError"
    /\ Len(task.sorted) = 3
    /\ task.k = 2
    /\ HasPlugin(plugins, task.sorted[1].id)
    /\ ~HasPlugin(plugins, task.sorted[3].id)

(***************************************************************************)
(* Properties of the lifecycle hooks (checked under SpecManager)           *)
(***************************************************************************)

CountEvents(events, ev, id) ==
    Cardinality({i \in 1..Len(events) : events[i] = Event(ev, id)})

\* The ids of the events of one kind, in the order they happened.
IdsOfEvents(events, ev) ==
    LET sel == SelectSeq(events, LAMBDA e : e.ev = ev)
    IN  [i \in 1..Len(sel) |-> sel[i].id]

\* C14: in a load sequence onLoad of a plugin is invoked only after the
\* plugin was registered (and while it is registered), once for each
\* registered instance that declares it and never otherwise, and it has
\* completed before the loader or the factory of another descriptor is
\* invoked; loading the chain a -> b -> c fires onLoad in the order c, b, a.
C14_OnLoadAfterRegister ==
    /\ \A p \in 1..Len(task.events) :
         task.events[p].ev = "onLoad"
         => /\ p > 1 /\ task.events[p - 1] = Event("register", task.events[p].id)
            /\ \A r \in (p + 1)..Len(task.events) :
                  (/\ task.events[r].ev \in {"loadPlugin", "create"}
                   /\ task.events[r].id # task.events[p].id)
                  => \E q \in (p + 1)..(r - 1) :
                        task.events[q] = Event("onLoadDone", task.events[p].id)
    /\ task.pc = "onLoad" => HasPlugin(plugins, task.sorted[task.k].id)
    /\ \A id \in Ids :
         CountEvents(task.events, "onLoad", id)
            = IF disk[id].onLoad
              THEN CountEvents(task.events, "register", id)
              ELSE 0
    /\ (/\ task.op = "loadPlugins" /\ task.result = Resolved
        /\ disk = DepChain /\ PackageIds(task.batch) = Ids)
       => /\ IdsOfEvents(task.events, "onLoad") = <<"c", "b", "a">>
          /\ IdsOfEvents(task.events, "onLoadDone") = <<"c", "b", "a">>

\* The chain discovered in the order a, b, c has been loaded.
C14_Witness ==
    /\ task.op = "loadPlugins"
    /\ task.result = Resolved
    /\ disk = DepChain
    /\ task.dirs = <<"a", "b", "c">>
    /\ IdsOfEvents(task.events, "onLoad") = <<"c", "b", "a">>
    /\ GetPluginIds(plugins) = <<"c", "b", "a">>

\* C15: unloadPlugin(id) of an id that is not registered is rejected with
\* PluginNotFoundError(id) and nothing is called or changed; of a registered
\* id it invokes onUnload, when the instance declares it, while the plugin is
\* still registered, removes the id only after the hook has completed, and
\* when it resolves hasPlugin(id) is false and the other entries are as
\* before.
C15_UnloadPlugin ==
    task.op = "unloadPlugin"
    => IF ~HasPlugin(task.before.plugins, task.target)
       THEN /\ task.pc = "done"
            /\ task.result = Rejected(PluginNotFoundError(task.target))
            /\ task.events = <<>>
            /\ plugins = task.before.plugins
            /\ manifests = task.before.manifests
       ELSE LET declared ==
                    GetPluginInstance(task.before.plugins, task.target).onUnload
            IN  /\ CountEvents(task.events, "onUnload", task.target)
                        = IF declared THEN 1 ELSE 0
                /\ task.pc = "onUnload"
                      => /\ plugins = task.before.plugins
                         /\ HasPlugin(plugins, task.target)
                /\ \A p \in 1..Len(task.events) :
                      task.events[p].ev = "unregister"
                      => /\ task.events[p].id = task.target
                         /\ declared =>
                              (p > 1 /\ task.events[p - 1]
                                          = Event("onUnloadDone", task.target))
                /\ HasPlugin(plugins, task.target)
                      <=> ~HasEvent(task.events, "unregister", task.target)
                /\ task.result = Resolved
                      => /\ ~HasPlugin(plugins, task.target)
                         /\ HasEvent(task.events, "unregister", task.target)
                         /\ \A id \in Ids \ {task.target} :
                               /\ HasPlugin(plugins, id)
                                    = HasPlugin(task.before.plugins, id)
                               /\ GetPluginInstance(plugins, id)
                                    = GetPluginInstance(task.before.plugins, id)

\* With three plugins loaded, unloadPlugin of one that declares onUnload has
\* resolved.
C15_Witness ==
    /\ task.op = "unloadPlugin"
    /\ task.result = Resolved
    /\ Len(task.before.plugins) = 3
    /\ task.events = <<Event("onUnload", task.target),
                       Event("onUnloadDone", task.target),
                       Event("unregister", task.target)>>
    /\ Len(plugins) = 2

\* The ids that are registered.
Loaded(ps) == {ps[i].key : i \in 1..Len(ps)}

\* The ids the manifest of a loaded plugin declares as dependencies.
DependenciesOf(ms, id) ==
    {MapGet(ms, id).dependencies[i].id : i \in 1..Len(MapGet(ms, id).dependencies)}

\* C16: after successful loadPlugins, reloadPlugin and unloadPlugin calls,
\* shutdown unloads dependents before their dependencies: when the unload of
\* an id starts (its onUnload is invoked, or it is removed), no other plugin
\* that is still loaded declares that id as a dependency.
C16_ShutdownDependentsFirst ==
    (/\ task.op = "shutdown" /\ task.clean
     /\ task.events # <<>>
     /\ task.events[Len(task.events)].ev \in {"onUnload", "unregister"})
    => \A y \in Loaded(plugins) \ {task.events[Len(task.events)].id} :
            task.events[Len(task.events)].id \notin DependenciesOf(manifests, y)

\* C17: when shutdown resolves no plugin is registered (getPluginIds is
\* empty), the manifest map of the manager is empty and no watcher is active.
C17_ShutdownEmpties ==
    (task.op = "shutdown" /\ task.result = Resolved)
    => /\ GetPluginIds(plugins) = <<>>
       /\ manifests = <<>>
       /\ watcher = "null"
       /\ \A id \in Loaded(task.before.plugins) :
              HasEvent(task.events, "unregister", id)

\* shutdown has resolved in a manager that had three plugins loaded and was
\* watching them.
C17_Witness ==
    /\ task.op = "shutdown"
    /\ task.result = Resolved
    /\ Len(task.before.plugins) = 3
    /\ task.before.watcher = "open"
    /\ plugins = <<>>

\* C18: in shutdown the unload of every id that is loaded when shutdown
\* starts is attempted, whatever happened to the unloads before it: when
\* shutdown has ended, onUnload of each such id that declares it was invoked,
\* and each such id is removed unless its own onUnload failed.
C18_ShutdownAttemptsAll ==
    (task.op = "shutdown" /\ task.pc = "done")
    => \A id \in Loaded(task.before.plugins) :
          /\ GetPluginInstance(task.before.plugins, id).onUnload
                => HasEvent(task.events, "onUnload", id)
          /\ ~HasEvent(task.events, "throw", id) => ~HasPlugin(plugins, id)

\* C19: reloadPlugin(id) of an id that is not loaded (never loaded, or
\* unloaded since) is rejected with PluginNotFoundError(id); no hook, loader
\* or discovery call is made and the registry and the manifest map are
\* unchanged.
C19_ReloadNotLoaded ==
    (task.op = "reloadPlugin" /\ ~HasPlugin(task.before.plugins, task.target))
    => /\ task.pc = "done"
       /\ task.result = Rejected(PluginNotFoundError(task.target))
       /\ task.events = <<>>
       /\ plugins = task.before.plugins
       /\ manifests = task.before.manifests

\* reloadPlugin of an id that was loaded and then unloaded is rejected while
\* other plugins are loaded.
C19_Witness ==
    /\ task.op = "reloadPlugin"
    /\ task.result.state = "rejected"
    /\ task.result.error.name = "PluginNotFoundError"
    /\ task.target = "c"
    /\ GetPluginIds(plugins) = <<"b", "a">>

\* C20: reloadPlugin(id) is rejected with ManifestNotFoundError carrying id
\* and the directory of the manifest that was loaded exactly when the
\* re-discovery in that directory yields no manifest; by then onUnload of
\* the old instance (if declared) has completed and the id has been removed,
\* so the id is not registered when the error is reported.
C20_ManifestMissing ==
    (task.op = "reloadPlugin" /\ HasPlugin(task.before.plugins, task.target))
    => /\ HasEvent(task.events, "notFound", task.target)
            <=> (/\ task.result.state = "rejected"
                 /\ task.result.error.name = "ManifestNotFoundError")
       /\ HasEvent(task.events, "notFound", task.target)
            => /\ task.pc = "done"
               /\ task.result.error
                    = ManifestNotFoundError(task.target,
                            MapGet(task.before.manifests, task.target).dir)
               /\ task.events[Len(task.events)] = Event("notFound", task.target)
               /\ GetPluginInstance(task.before.plugins, task.target).onUnload
                    => \E p, q \in 1..Len(task.events) :
                          /\ p < q
                          /\ task.events[p] = Event("onUnloadDone", task.target)
                          /\ task.events[q] = Event("unregister", task.target)
               /\ HasEvent(task.events, "unregister", task.target)
               /\ ~HasPlugin(plugins, task.target)
               /\ ~MapHas(manifests, task.target)
               /\ ~HasEvent(task.events, "loadPlugin", task.target)

\* The directory of a loaded plugin that declares onUnload has disappeared
\* when it is reloaded.
C20_Witness ==
    /\ task.op = "reloadPlugin"
    /\ task.result.state = "rejected"
    /\ task.result.error.name = "ManifestNotFoundError"
    /\ task.events = <<Event("onUnload", task.target),
                       Event("onUnloadDone", task.target),
                       Event("unregister", task.target),
                       Event("findPlugins", task.target),
                       Event("notFound", task.target)>>
    /\ Len(task.before.plugins) = 3
    /\ Len(plugins) = 2

(***************************************************************************)
(* Properties of reload and of the watcher (checked under SpecHotReload)   *)
(***************************************************************************)

\* The metadata record has the fields of the manifest.
MetadataOf(md, manifest) ==
    /\ md.id = manifest.id
    /\ md.name = manifest.name
    /\ md.pluginType = manifest.pluginType
    /\ md.version = manifest.version
    /\ md.description = manifest.description
    /\ md.dependencies = manifest.dependencies
    /\ md.dir = manifest.dir

\* A reloadPlugin of an id that was loaded when it was called.
Reloading ==
    task.op = "reloadPlugin" /\ HasPlugin(task.before.plugins, task.target)

\* While a reload is between the removal of the old entry and the
\* registration of the new one.
C21_Between ==
    (Reloading /\ task.pc \in {"unloaded", "rediscover", "import", "create"})
    => /\ ~HasPlugin(plugins, task.target)
       /\ ~MapHas(manifests, task.target)
       /\ HasEvent(task.events, "unregister", task.target)

\* create of the new factory comes after the removal of the old entry, which
\* comes after the completion of the old instance's onUnload.
C21_Order ==
    Reloading =>
        \A i \in 1..Len(task.events) :
            task.events[i] = Event("create", task.target)
            => \E j \in 1..(i - 1) :
                  /\ task.events[j] = Event("unregister", task.target)
                  /\ GetPluginInstance(task.before.plugins, task.target).onUnload
                     => \E k \in 1..(j - 1) :
                           task.events[k] = Event("onUnloadDone", task.target)

\* The manifest that is loaded is the one on disk, not the one held.
C21_Fresh ==
    (Reloading /\ task.pc \in {"import", "create", "onLoad"})
    => /\ task.sorted = <<disk[task.target].manifest>>
       /\ task.pc = "onLoad"
          => /\ GetPluginInstance(plugins, task.target)
                    = Create(disk, disk[task.target].manifest)
             /\ MetadataOf(GetPluginMetadata(plugins, task.target),
                           disk[task.target].manifest)

\* When reloadPlugin resolves.
C21_Resolved ==
    (Reloading /\ task.result = Resolved)
    => /\ HasPlugin(plugins, task.target)
       /\ MetadataOf(GetPluginMetadata(plugins, task.target), task.sorted[1])
       /\ MapGet(manifests, task.target) = task.sorted[1]
       /\ CountEvents(task.events, "create", task.target) = 1
       /\ CountEvents(task.events, "register", task.target) = 1
       /\ GetPluginInstance(plugins, task.target).onLoad
            = HasEvent(task.events, "onLoadDone", task.target)

\* The step that registers: the entry is the instance that create of the
\* module on disk produced, with the metadata of the manifest on disk.
C21_Register ==
    (Reloading /\ task.pc = "create" /\ HasPlugin(plugins', task.target))
    => /\ GetPluginInstance(plugins', task.target)
            = Create(disk, disk[task.target].manifest)
       /\ MetadataOf(GetPluginMetadata(plugins', task.target),
                     disk[task.target].manifest)
       /\ task'.result = Resolved
            => GetPluginInstance(plugins', task.target).onLoad = FALSE

\* C21: a successful reloadPlugin(id) is unregister-then-register under the
\* same id: the old instance's onUnload has completed before the new
\* factory's create is invoked, the id is absent from the registry between
\* the two, and when reloadPlugin resolves the id is registered with the
\* instance of the fresh create and with metadata that has every field of
\* the manifest freshly read from disk.
C21_ReloadReplaces ==
    /\ [](C21_Between /\ C21_Order /\ C21_Fresh /\ C21_Resolved)
    /\ [][C21_Register]_vars

\* The plugin.json of a was edited after a was loaded, and a reload of a has
\* resolved: the version is the new one and create was invoked again.
C21_Witness ==
    /\ Reloading
    /\ task.result = Resolved
    /\ task.target = "a"
    /\ HasEvent(task.events, "onUnloadDone", "a")
    /\ HasEvent(task.events, "create", "a")
    /\ GetPluginMetadata(plugins, "a").version
            # GetPluginMetadata(task.before.plugins, "a").version
    /\ GetPluginMetadata(plugins, "a").version = disk["a"].manifest.version
    /\ Len(plugins) = 2

\* The handler of a 'change' event has been run by the watcher.
Handled == task.handler \in {"running", "reload", "error"}

\* C22: for every 'change' event that matches a loaded plugin the handler
\* runs reloadPlugin of that id and then calls the callback it was given
\* exactly once, with (id, 'reload') when the reload resolved and with
\* (id, 'error', error) when it was rejected, error being the Error of the
\* rejection, or an Error made of its value when that is not one; the failure
\* of the reload is not thrown out of the handler, whose promise is rejected
\* only by what the callback itself throws there, and the watcher stays open;
\* an event that matches no plugin calls nothing.
C22_HandlerReports ==
    /\ Handled
       => /\ task.op = "reloadPlugin"
          /\ HasPlugin(task.before.plugins, task.target)
          /\ StartsWith(task.path, MapGet(task.before.manifests, task.target).dir)
          /\ task.onChange \in {Undefined, "returns"} => ~task.rejected
          /\ task.rejected => task.calls[Len(task.calls)].event = "error"
          /\ watcher = "open"
          /\ Len(subscriptions) = 1
    /\ task.handler = "running" => task.calls = <<>>
    /\ (task.handler = "reload" /\ task.onChange # Undefined)
       => /\ task.result = Resolved
          /\ task.calls = <<Callback(task.target, "reload", NoError)>>
    /\ (task.handler = "error" /\ task.onChange # Undefined)
       => /\ task.result.state = "rejected"
          /\ task.result.error # NoError
          /\ Len(task.calls) = 1
          /\ task.calls[1].id = task.target
          /\ task.calls[1].event = "error"
          /\ InstanceOfError(task.result.error)
             => task.calls[1].error = task.result.error
          /\ ~InstanceOfError(task.result.error)
             => /\ task.calls[1].error.name = "Error"
                /\ task.calls[1].error.message = task.result.error
    /\ task.handler = "ignored"
       => /\ task.calls = <<>>
          /\ ~task.rejected
          /\ \A i \in 1..Len(manifests) :
                ~StartsWith(task.path, manifests[i].value.dir)

\* The path is the path of a file of the directory.
InDirectory(filePath, dir) == \E f \in ChangedFiles : filePath = dir \o f

\* C23: a 'change' event for a path inside the directory of a loaded plugin
\* P triggers a reload of P and of no other plugin, also when the directory
\* of another loaded plugin is a string prefix of the directory of P.
C23_ChangeReloadsOwner ==
    Handled
    => /\ \A i \in 1..Len(task.before.manifests) :
             InDirectory(task.path, task.before.manifests[i].value.dir)
             => task.target = task.before.manifests[i].key
       /\ \A i \in 1..Len(task.events) : task.events[i].id = task.target

\* C24: with watch, stopWatching and shutdown called one after the other at
\* most one filesystem subscription is open, and the manager holds it: watch
\* closes the watcher that was active before it creates a new one,
\* stopWatching and shutdown close the active watcher, and stopWatching
\* without an active watcher resolves without any effect.
C24_OneSubscription ==
    /\ Len(subscriptions) <= 1
    /\ (watcher = "open") = (Len(subscriptions) = 1)
    /\ (task.op = "watch" /\ task.pc = "done")
       => /\ task.result = Resolved
          /\ (watcher = "open") = (Len(manifests) > 0)
    /\ (task.op = "stopWatching" /\ task.pc = "done")
       => /\ task.result = Resolved
          /\ watcher = "null"
          /\ subscriptions = <<>>
          /\ plugins = task.before.plugins
          /\ manifests = task.before.manifests
    /\ (task.op = "stopWatching" /\ task.before.watcher = "null")
       => task.pc = "done"
    /\ (task.op = "shutdown" /\ task.pc # "stopWatching")
       => watcher = "null" /\ subscriptions = <<>>

\* watch was called with a watcher active and has resolved: one watcher is
\* open.
C24_Witness ==
    /\ task.op = "watch"
    /\ task.pc = "done"
    /\ task.before.watcher = "open"
    /\ watcher = "open"
    /\ Len(subscriptions) = 1

(***************************************************************************)
(* The lifecycle of a plugin id (checked under SpecManager)                *)
(***************************************************************************)

\* Whether id is registered just before the i-th event of the operation.
RegisteredBefore(i, id) ==
    LET marks == {j \in 1..(i - 1) :
                    /\ task.events[j].id = id
                    /\ task.events[j].ev \in {"register", "unregister"}}
    IN  IF marks = {} THEN HasPlugin(task.before.plugins, id)
        ELSE task.events[CHOOSE j \in marks : \A k \in marks : k <= j].ev = "register"

\* C25: for every plugin id, with the operations of the manager called one
\* after the other, the lifecycle events follow Unloaded -> Loading -> Loaded
\* -> Unloading -> Unloaded: create and register happen only while the id is
\* not registered and onLoad only right after its register, onUnload and the
\* removal only while the id is registered, and onUnload is invoked at most
\* once for a registered instance.
C25_Lifecycle ==
    \A i \in 1..Len(task.events) :
        LET e == task.events[i]
        IN  /\ e.ev \in {"create", "register"} => ~RegisteredBefore(i, e.id)
            /\ e.ev = "onLoad"
               => i > 1 /\ task.events[i - 1] = Event("register", e.id)
            /\ e.ev \in {"onUnload", "unregister"} => RegisteredBefore(i, e.id)
            /\ e.ev = "onUnload"
               => \A j \in 1..(i - 1) :
                     task.events[j] = e
                     => \E k \in (j + 1)..(i - 1) :
                           task.events[k] = Event("register", e.id)

(***************************************************************************)
(* The stored metadata (checked under SpecHotReload)                       *)
(***************************************************************************)

\* One step of the manager, for the stored metadata of id.
C26_Step(id) ==
    /\ HasPlugin(plugins', id)
       => /\ MapHas(manifests', id)
          /\ MetadataOf(GetPluginMetadata(plugins', id), MapGet(manifests', id))
    /\ (HasPlugin(plugins, id) /\ HasPlugin(plugins', id))
       => GetPluginMetadata(plugins', id) = GetPluginMetadata(plugins, id)
    /\ (HasPlugin(plugins, id) /\ ~HasPlugin(plugins', id))
       => /\ task'.target = id
          /\ task'.op \in {"unloadPlugin", "reloadPlugin", "shutdown"}
    /\ (~HasPlugin(plugins, id) /\ HasPlugin(plugins', id))
       => /\ task.pc = "create"
          /\ task.sorted[task.k].id = id
          /\ MetadataOf(GetPluginMetadata(plugins', id), task.sorted[task.k])
          /\ task.sorted[task.k] = disk[id].manifest

\* C26: the metadata stored for a loaded plugin has the id, name, pluginType,
\* version, description and dependencies of the manifest it was loaded from,
\* and its dir is the manifest's directory; the metadata of an id changes
\* only by the entry being removed (unload, reload, shutdown of that id) or
\* registered anew from a manifest, never in a step that loads or unloads
\* another id.
C26_MetadataSnapshot == [][\A id \in Ids : C26_Step(id)]_vars

\* The directory of a was edited and a reloaded while b stayed loaded: the
\* metadata of a is replaced, the metadata of b is what it was.
C26_Witness ==
    /\ Reloading
    /\ task.result = Resolved
    /\ task.target = "a"
    /\ HasPlugin(plugins, "b")
    /\ GetPluginMetadata(plugins, "b") = GetPluginMetadata(task.before.plugins, "b")
    /\ GetPluginMetadata(plugins, "a").version = <<1, 0, 1>>
    /\ GetPluginMetadata(task.before.plugins, "a").version = <<1, 0, 0>>
    /\ GetPluginMetadata(plugins, "a").dir = "/plugins/foo"

\* ---------------------------------------------------------------------------
\* Failures inside loadSinglePlugin
\* ---------------------------------------------------------------------------

\* The operation in flight was rejected by a failure of the step named ev
\* of plugin id: the log ends with that step and the throw.
FailedAt(ev, id) ==
    /\ task.result.state = "rejected"
    /\ Len(task.events) >= 2
    /\ task.events[Len(task.events)] = Event("throw", id)
    /\ task.events[Len(task.events) - 1] = Event(ev, id)

\* The entries a registry holds under id: none or one.
Entries(ps, id) == {ps[i] : i \in {j \in DOMAIN ps : ps[j].key = id}}

\* What the registry held under id when the load of id began: for a
\* loadPlugins call what it held before the call, for a reload nothing, the
\* old entry having been removed before the load.
EntryBeforeLoad(id) ==
    IF task.op = "reloadPlugin" THEN {}
    ELSE Entries(task.before.plugins, id)

\* C31: when onLoad fails during a load, the plugin stays registered:
\* hasPlugin is true, the id is among getPluginIds and in the manifest map
\* (so unloadPlugin and reloadPlugin find it), although the loading operation
\* was rejected.  When the loader or the factory fails, the plugin is not
\* registered by that load: the registry holds for the id what it held before.
C31_FailedLoad ==
    \A id \in Ids :
        (task.op \in LoadingOps /\ task.result.state = "rejected") =>
            /\ (task.result.error = HookError(id) /\ FailedAt("onLoad", id)) =>
                    /\ HasPlugin(plugins, id)
                    /\ id \in ElementsOf(GetPluginIds(plugins))
                    /\ MapHas(manifests, id)
                    /\ HasEvent(task.events, "register", id)
            /\ task.result.error \in {PluginLoadError(id), PluginInvalidExportError(id),
                                      FactoryError(id)} =>
                    /\ FailedAt("loadPlugin", id) \/ FailedAt("create", id)
                    /\ ~HasEvent(task.events, "register", id)
                    /\ Entries(plugins, id) = EntryBeforeLoad(id)
                    /\ HasPlugin(plugins, id) = (EntryBeforeLoad(id) # {})

\* A loadPlugins call was rejected by onLoad of a plugin that is registered.
C31_Witness ==
    /\ task.op = "loadPlugins"
    /\ FailedAt("onLoad", "a")
    /\ HasPlugin(plugins, "a")
    /\ MapHas(manifests, "a")

\* ---------------------------------------------------------------------------
\* Failures inside reloadPlugin
\* ---------------------------------------------------------------------------

\* The errors by which a reload can fail once the old entry is removed.
AfterUnloadErrors(id) ==
    {ManifestNotFoundError(id, task.old.dir), PluginLoadError(id),
     PluginInvalidExportError(id), FactoryError(id)}

\* A reload of a loaded id has been rejected after its unload step.
ReloadFailedAfterUnload ==
    /\ Reloading
    /\ task.result.state = "rejected"
    /\ task.result.error \in AfterUnloadErrors(task.target)

\* A reload that failed after its unload step leaves the id in neither the
\* registry nor the manifest map: the old instance is not put back, and
\* nothing was registered in its place.
C32_NoRollback ==
    ReloadFailedAfterUnload
    => /\ ~HasPlugin(plugins, task.target)
       /\ ~MapHas(manifests, task.target)
       /\ HasEvent(task.events, "unregister", task.target)
       /\ ~HasEvent(task.events, "register", task.target)

\* A reload that failed in the old instance's onUnload leaves that instance
\* registered with its manifest, and no new instance was created.
C32_OnUnloadFailed ==
    (/\ Reloading
     /\ task.result = Rejected(HookError(task.target))
     /\ ~HasEvent(task.events, "onLoad", task.target))
    => /\ FailedAt("onUnload", task.target)
       /\ Entries(plugins, task.target) = Entries(task.before.plugins, task.target)
       /\ Entries(manifests, task.target) = Entries(task.before.manifests, task.target)
       /\ HasPlugin(plugins, task.target)
       /\ ~HasEvent(task.events, "create", task.target)
       /\ ~HasEvent(task.events, "loadPlugin", task.target)
       /\ ~HasEvent(task.events, "unregister", task.target)

\* The next call after a reload that failed after its unload step, when it
\* is a reloadPlugin of the same id, is rejected with PluginNotFoundError.
C32_NextReload ==
    (/\ ReloadFailedAfterUnload
     /\ Quiet
     /\ task' # task
     /\ task'.op = "reloadPlugin"
     /\ task'.target = task.target)
    => /\ task'.pc = "done"
       /\ task'.result = Rejected(PluginNotFoundError(task.target))
       /\ plugins' = plugins
       /\ manifests' = manifests

\* C32: reloadPlugin has no rollback.  When it fails after the unload step
\* (manifest missing, loader failure, create failure) the id is left
\* unregistered, the old instance is not restored and a subsequent
\* reloadPlugin(id) fails with PluginNotFoundError; when it fails because the
\* old instance's onUnload fails, the old instance is still registered and no
\* new instance has been created.
C32_ReloadFailure ==
    /\ [](C32_NoRollback /\ C32_OnUnloadFailed)
    /\ [][C32_NextReload]_vars

\* A reload of a loaded plugin was rejected by the factory of the module now
\* on disk, while another plugin stays loaded.
C32_Witness ==
    /\ ReloadFailedAfterUnload
    /\ task.result.error = FactoryError("a")
    /\ HasPlugin(task.before.plugins, "a")
    /\ ~HasPlugin(plugins, "a")
    /\ HasPlugin(plugins, "b")

\* ---------------------------------------------------------------------------
\* The manifest map and the registry
\* ---------------------------------------------------------------------------

\* C34: in every state in which the manager is suspended at an await or at
\* rest, the registry being changed only by the manager, the keys of the
\* manifest map are the registered ids, in the same order.
C34_SameKeys ==
    MapKeys(manifests) = GetPluginIds(plugins)

\* During a reload of a, loaded before b: a is out of both maps; and after
\* it, a comes after b in both.
C34_Witness ==
    /\ Reloading
    /\ task.target = "a"
    /\ task.result.state = "resolved"
    /\ GetPluginIds(task.before.plugins) = <<"a", "b">>
    /\ GetPluginIds(plugins) = <<"b", "a">>
    /\ MapKeys(manifests) = <<"b", "a">>

\* ---------------------------------------------------------------------------
\* A loadPlugins call knows only the manifests it discovered
\* ---------------------------------------------------------------------------

\* The dependency entries of the batch whose id the batch does not contain.
Undiscovered(batch) ==
    {e \in DeclaredDeps(batch) : e.id \notin PackageIds(batch)}

\* A loadPlugins call past its discovery.
Discovered == task.op = "loadPlugins" /\ task.pc # "discover"

\* A batch with a dependency it did not discover is rejected by the
\* resolution, whether or not the dependency is registered; a
\* DependencyNotFoundError names a dependency absent from the batch.
C37_OwnBatch ==
    Discovered =>
        /\ Undiscovered(task.batch) # {} =>
                /\ task.pc = "done"
                /\ task.result.state = "rejected"
                /\ task.result.error.name \in ResolutionErrors
                /\ task.events = <<>>
                /\ plugins = task.before.plugins
        /\ (task.result.state = "rejected"
               /\ task.result.error.name = "DependencyNotFoundError") =>
                \E e \in Undiscovered(task.batch) :
                    /\ e.id = task.result.error.dependencyId
                    /\ e.from = task.result.error.requestedBy

\* A batch that rediscovers a registered id fails with DuplicatePluginError
\* at that id, after the module of the id was loaded and create was invoked;
\* the instance registered before stays registered.
C37_Rediscovered ==
    Discovered =>
        \A id \in Ids :
            /\ task.result = Rejected(DuplicatePluginError(id)) =>
                    /\ HasPlugin(task.before.plugins, id)
                    /\ id \in PackageIds(task.batch)
                    /\ HasEvent(task.events, "loadPlugin", id)
                    /\ FailedAt("create", id)
                    /\ ~HasEvent(task.events, "register", id)
            /\ (HasPlugin(task.before.plugins, id) /\ id \in PackageIds(task.batch)) =>
                    /\ Entries(plugins, id) = Entries(task.before.plugins, id)
                    /\ Entries(manifests, id) = Entries(task.before.manifests, id)
                    /\ task.result.state # "resolved"
                    /\ (HasEvent(task.events, "create", id) /\ task.pc = "done") =>
                            task.result.error \in
                                {DuplicatePluginError(id), FactoryError(id)}

\* C37: each loadPlugins call resolves dependencies only among the manifests
\* it discovered: a plugin whose dependency was registered by an earlier call
\* but is not rediscovered is rejected with DependencyNotFoundError; a batch
\* rediscovering a registered id fails with DuplicatePluginError at that id
\* only after its module was loaded and create invoked, and the earlier
\* instance stays registered.
C37_PerCall ==
    C37_OwnBatch /\ C37_Rediscovered

\* c requires b ^1.0.0 and b 1.5.0 was registered by an earlier call: a call
\* discovering only c is rejected with DependencyNotFoundError.
C37_Witness ==
    /\ Discovered
    /\ PackageIds(task.batch) = {"c"}
    /\ HasPlugin(task.before.plugins, "b")
    /\ GetPluginMetadata(plugins, "b").version = <<1, 5, 0>>
    /\ task.result = Rejected(DependencyNotFoundError("b", "c"))

\* ---------------------------------------------------------------------------
\* topologicalSort called twice (checked under SpecSortTwice)
\* ---------------------------------------------------------------------------

\* Sorting the output of a successful sort succeeds and returns that output
\* (packages holds the first output once the second call is made).
C35_Idempotent ==
    sortPc = "resorted" =>
        /\ ~sortResult.threw
        /\ sortResult.value = packages

\* A call after another call starts with nothing visited and nothing in
\* progress, whatever the earlier call left: its first visit finds both sets
\* empty.
C35_Fresh ==
    (sortPc \in {"resorted", "repeated"} /\ sortTrace # <<>>) =>
        /\ sortTrace[1].kind = "visit"
        /\ sortTrace[1].visiting = {}
        /\ sortTrace[1].visited = {}

\* The descriptors a call returns are descriptors of its input, as they are
\* in the input: the call reorders and references them.
C35_References ==
    (sortPc # "call" /\ ~sortResult.threw) =>
        \A i \in 1..Len(sortResult.value) :
            sortResult.value[i] \in ElementsOf(packages)

\* A call leaves its input as it was, and a second call on the same input,
\* also on an input the first call failed on, makes the visits the first made
\* and returns what the first returned, or throws what the first threw.
C35_Step ==
    /\ (sortPc = "call" /\ sortPc' = "done") => packages' = packages
    /\ (sortPc = "done" /\ sortPc' = "repeated") =>
            /\ packages' = packages
            /\ sortResult' = sortResult
            /\ sortTrace' = sortTrace

LastIndexOf(pkgs, id) ==
    CHOOSE i \in 1..Len(pkgs) :
        pkgs[i].id = id /\ \A j \in (i + 1)..Len(pkgs) : pkgs[j].id # id

\* A loadPlugins call whose sort has succeeded.
Sorted ==
    /\ Discovered
    /\ ~(task.result.state = "rejected" /\ task.result.error.name \in ResolutionErrors)

\* The sorted output holds one descriptor for each id of the input, the last
\* one of the input with that id, and is shorter than an input with a
\* repeated id.
C36_LastWins ==
    Sorted =>
        /\ DistinctIds(task.sorted)
        /\ PackageIds(task.sorted) = PackageIds(task.batch)
        /\ \A i \in 1..Len(task.sorted) :
              task.sorted[i] = task.batch[LastIndexOf(task.batch, task.sorted[i].id)]
        /\ ~DistinctIds(task.batch) => Len(task.sorted) < Len(task.batch)

\* Each id of the batch is loaded, created and registered at most once, and
\* DuplicatePluginError is thrown only for an id registered before the call.
C36_LoadedOnce ==
    Sorted =>
        \A id \in Ids :
            /\ CountEvents(task.events, "loadPlugin", id) <= 1
            /\ CountEvents(task.events, "create", id) <= 1
            /\ CountEvents(task.events, "register", id) <= 1
            /\ task.result = Rejected(DuplicatePluginError(id))
                    => HasPlugin(task.before.plugins, id)
            /\ (task.result.state = "resolved" /\ id \in PackageIds(task.batch)) =>
                    GetPluginMetadata(plugins, id) =
                        manifestToMetadata(task.batch[LastIndexOf(task.batch, id)])

\* C36: when the input holds several descriptors with the same id, the
\* sorted output holds exactly one descriptor per distinct id, the last one
\* with that id in input order, so it is shorter than the input; a
\* loadPlugins batch whose patterns overlap loads each id once and does not
\* fail with DuplicatePluginError.
C36_RepeatedIds ==
    C36_LastWins /\ C36_LoadedOnce

\* Patterns matching both directories that hold a plugin a, and c: the call
\* resolves with a 2.0.0, the later one, which c requires.
C36_Witness ==
    /\ task.op = "loadPlugins"
    /\ task.result.state = "resolved"
    /\ Len(task.batch) = 3
    /\ task.batch[1].version = <<1, 0, 0>>
    /\ task.batch[2].version = <<2, 0, 0>>
    /\ task.batch[1].id = "a" /\ task.batch[2].id = "a"
    /\ Len(task.sorted) = 2
    /\ GetPluginIds(plugins) = <<"a", "c">>
    /\ GetPluginMetadata(plugins, "a").version = <<2, 0, 0>>

\* ---------------------------------------------------------------------------
\* Overlapping executions (checked under SpecOverlap)
\* ---------------------------------------------------------------------------

\* Two change handlers for plugin id overlap or have overlapped: each runs or
\* ran reloadPlugin(id).
BothHandlers(id) ==
    /\ task.handler # "none" /\ task.op = "reloadPlugin" /\ task.target = id
    /\ parked.handler # "none" /\ parked.op = "reloadPlugin" /\ parked.target = id

\* The number of events of one kind about id in the two executions.
CountBoth(ev, id) ==
    CountEvents(task.events, ev, id) + CountEvents(parked.events, ev, id)

\* The failures that come from the plugin or from the disk, not from the
\* interleaving.
OutsideFailures ==
    {"ManifestNotFoundError", "PluginLoadError", "PluginInvalidExportError",
     "FactoryError", "HookError"}

\* C33: when two change events for the same plugin are handled with
\* overlapping executions, in every interleaving onUnload of each registered
\* instance is invoked at most once (two calls of onUnload for the id are
\* never pending together: one instance is registered under the id and it is
\* removed only when its onUnload has completed), create is invoked at most
\* once per completed unload, and when both handlers have finished, no step
\* of the plugin or of the disk having failed, the id is registered with
\* exactly one instance.
C33_OverlappingReloads ==
    \A id \in Ids :
        BothHandlers(id) =>
            /\ ~(task.pc = "onUnload" /\ parked.pc = "onUnload")
            /\ CountBoth("create", id) <= CountBoth("unregister", id)
            /\ (/\ ~Unfinished(task) /\ ~Unfinished(parked)
                /\ task.result.error.name \notin OutsideFailures
                /\ parked.result.error.name \notin OutsideFailures)
               => /\ Cardinality(Entries(plugins, id)) = 1
                  /\ MapHas(manifests, id)

\* shutdown and a change handler overlap or have overlapped.
ShutdownWithHandler ==
    \/ task.op = "shutdown" /\ parked.handler # "none"
    \/ parked.op = "shutdown" /\ task.handler # "none"

\* The result of the shutdown that overlapped the handler.
ShutdownResult ==
    IF task.op = "shutdown" THEN task.result ELSE parked.result

\* C38: when shutdown is called while a reload started by the watcher is in
\* flight, in every interleaving, once shutdown (resolved) and the handler
\* have both finished, no plugin is registered and the manifest map is empty.
C38_ShutdownDuringReload ==
    (/\ ShutdownWithHandler
     /\ ~Unfinished(task) /\ ~Unfinished(parked)
     /\ ShutdownResult = Resolved)
    => /\ plugins = <<>>
       /\ manifests = <<>>


====
